---- MODULE Spec2Model ----
(***************************************************************************)
(* Model of the CITI certificate verification run of sit-cert-server:      *)
(* CitiCertVerificationService.verify_certificate_submission and the       *)
(* helpers it calls (src/app/services/citi_verification_service.py).       *)
(* Text values are sequences of one-character strings, so that the         *)
(* string operations of the code (replace, lower, regular expressions,     *)
(* strptime/strftime, join, title) are computed as the code computes them. *)
(***************************************************************************)
EXTENDS Integers, Sequences, FiniteSets, TLC

(***************************************************************************)
(* Bounds of the model.                                                    *)
(***************************************************************************)
\* number of invocations of verify_certificate_submission
MaxRuns == 2

\* number of invocations where the progress of each is followed to its end
MaxLiveRuns == 1

\* largest value of each of the two verification counters
MaxVerifications == 2

\* the workers that call verify_certificate_submission, each one invocation
\* at a time
Workers == {1, 2}

(***************************************************************************)
(* Text helpers: Python str operations on sequences of characters.         *)
(***************************************************************************)
UpperChars ==
  <<"A","B","C","D","E","F","G","H","I","J","K","L","M",
    "N","O","P","Q","R","S","T","U","V","W","X","Y","Z">>

LowerChars ==
  <<"a","b","c","d","e","f","g","h","i","j","k","l","m",
    "n","o","p","q","r","s","t","u","v","w","x","y","z">>

DigitChars == <<"0","1","2","3","4","5","6","7","8","9">>

HexLetters == {"a","b","c","d","e","f"}

\* str.lower() on one character
LowerChar(c) ==
  IF \E i \in 1..26 : UpperChars[i] = c
    THEN LowerChars[CHOOSE i \in 1..26 : UpperChars[i] = c]
    ELSE c

\* str.upper() on one character
UpperChar(c) ==
  IF \E i \in 1..26 : LowerChars[i] = c
    THEN UpperChars[CHOOSE i \in 1..26 : LowerChars[i] = c]
    ELSE c

\* str.lower()
Lower(s) == [i \in 1..Len(s) |-> LowerChar(s[i])]

IsDigit(c) == \E i \in 1..10 : DigitChars[i] = c

DigitVal(c) == (CHOOSE i \in 1..10 : DigitChars[i] = c) - 1

IsAlpha(c) == \E i \in 1..26 : UpperChars[i] = c \/ LowerChars[i] = c

\* s[:n]
Take(s, n) == SubSeq(s, 1, IF n < Len(s) THEN n ELSE Len(s))

\* s[n:]
Drop(s, n) == SubSeq(s, n + 1, Len(s))

\* s.startswith(p)
StartsWith(s, p) == Len(s) >= Len(p) /\ SubSeq(s, 1, Len(p)) = p

\* the positions of s, in order
Positions(s) == [i \in 1..Len(s) |-> i]

\* the characters of s at the positions idx, in order
KeepAt(s, idx) == [k \in 1..Len(idx) |-> s[idx[k]]]

\* s.replace(c, ""), c one character
RemoveChar(s, c) == SelectSeq(s, LAMBDA x : x # c)

\* s.replace(c, d), c and d one character each
ReplaceChar(s, c, d) == [i \in 1..Len(s) |-> IF s[i] = c THEN d ELSE s[i]]

\* s.replace(c1 + c2, ""), c1 and c2 different characters (occurrences of
\* such a pair cannot overlap)
RemovePair(s, c1, c2) ==
  LET starts(i) == i < Len(s) /\ s[i] = c1 /\ s[i+1] = c2
      keep(i) == ~starts(i) /\ ~(i > 1 /\ starts(i-1))
  IN KeepAt(s, SelectSeq(Positions(s), keep))

RECURSIVE Join(_, _)
\* sep.join(parts)
Join(sep, parts) ==
  IF parts = << >> THEN << >>
  ELSE IF Len(parts) = 1 THEN parts[1]
  ELSE parts[1] \o sep \o Join(sep, Tail(parts))

(***************************************************************************)
(* _format_pdf_date: datetime.strptime(.., "%Y%m%d").strftime("%d-%b-%Y")  *)
(***************************************************************************)
MonthNames ==
  << <<"J","a","n">>, <<"F","e","b">>, <<"M","a","r">>, <<"A","p","r">>,
     <<"M","a","y">>, <<"J","u","n">>, <<"J","u","l">>, <<"A","u","g">>,
     <<"S","e","p">>, <<"O","c","t">>, <<"N","o","v">>, <<"D","e","c">> >>

\* the alternatives of strptime's %m, 1[0-2]|0[1-9]|[1-9], that match a
\* prefix of s, in the order the regular expression tries them: <<value, length>>
MonthAlternatives(s) ==
  LET a1 == IF Len(s) >= 2 /\ s[1] = "1" /\ s[2] \in {"0","1","2"}
              THEN << <<10 + DigitVal(s[2]), 2>> >> ELSE << >>
      a2 == IF Len(s) >= 2 /\ s[1] = "0" /\ IsDigit(s[2]) /\ s[2] # "0"
              THEN << <<DigitVal(s[2]), 2>> >> ELSE << >>
      a3 == IF Len(s) >= 1 /\ IsDigit(s[1]) /\ s[1] # "0"
              THEN << <<DigitVal(s[1]), 1>> >> ELSE << >>
  IN a1 \o a2 \o a3

\* the alternatives of strptime's %d, 3[0-1]|[1-2]\d|0[1-9]|[1-9]| [1-9]
DayAlternatives(s) ==
  LET a1 == IF Len(s) >= 2 /\ s[1] = "3" /\ s[2] \in {"0","1"}
              THEN << <<30 + DigitVal(s[2]), 2>> >> ELSE << >>
      a2 == IF Len(s) >= 2 /\ s[1] \in {"1","2"} /\ IsDigit(s[2])
              THEN << <<10 * DigitVal(s[1]) + DigitVal(s[2]), 2>> >> ELSE << >>
      a3 == IF Len(s) >= 2 /\ s[1] = "0" /\ IsDigit(s[2]) /\ s[2] # "0"
              THEN << <<DigitVal(s[2]), 2>> >> ELSE << >>
      a4 == IF Len(s) >= 1 /\ IsDigit(s[1]) /\ s[1] # "0"
              THEN << <<DigitVal(s[1]), 1>> >> ELSE << >>
      a5 == IF Len(s) >= 2 /\ s[1] = " " /\ IsDigit(s[2]) /\ s[2] # "0"
              THEN << <<DigitVal(s[2]), 2>> >> ELSE << >>
  IN a1 \o a2 \o a3 \o a4 \o a5

IsLeap(y) == (y % 4 = 0 /\ y % 100 # 0) \/ y % 400 = 0

DaysInMonth(y, m) ==
  IF m = 2 THEN (IF IsLeap(y) THEN 29 ELSE 28)
  ELSE IF m \in {4, 6, 9, 11} THEN 30 ELSE 31

NoDate == [ok |-> FALSE, year |-> 0, month |-> 0, day |-> 0]

\* datetime.strptime(s, "%Y%m%d"); ok = FALSE stands for ValueError.  The
\* format's regular expression is matched at the start of s (first match in
\* the order of its alternatives); text left over after the match, a year 0
\* or a day the month does not have is a ValueError.
Strptime(s) ==
  IF ~(Len(s) >= 4 /\ \A i \in 1..4 : IsDigit(s[i])) THEN NoDate
  ELSE
    LET year == 1000 * DigitVal(s[1]) + 100 * DigitVal(s[2])
                + 10 * DigitVal(s[3]) + DigitVal(s[4])
        rest == Drop(s, 4)
        ms   == MonthAlternatives(rest)
        good == {i \in 1..Len(ms) : DayAlternatives(Drop(rest, ms[i][2])) # << >>}
    IN IF good = {} THEN NoDate
       ELSE
         LET i == CHOOSE j \in good : \A k \in good : j <= k
             m == ms[i]
             d == DayAlternatives(Drop(rest, m[2]))[1]
         IN IF 4 + m[2] + d[2] # Len(s) THEN NoDate
            ELSE IF year < 1 \/ d[1] > DaysInMonth(year, m[1]) THEN NoDate
            ELSE [ok |-> TRUE, year |-> year, month |-> m[1], day |-> d[1]]

\* dt.strftime("%d-%b-%Y") in the C locale, for the years from 1000 on (the
\* only ones the model's dates have; the C library may print an earlier
\* year without leading zeros)
Strftime(dt) ==
  << DigitChars[(dt.day \div 10) + 1], DigitChars[(dt.day % 10) + 1], "-" >>
  \o MonthNames[dt.month] \o
  << "-", DigitChars[(dt.year \div 1000) + 1], DigitChars[((dt.year \div 100) % 10) + 1],
     DigitChars[((dt.year \div 10) % 10) + 1], DigitChars[(dt.year % 10) + 1] >>

\* _format_pdf_date(date_str): [ok |-> FALSE] stands for the ValueError of strptime
NoText == [ok |-> FALSE, val |-> << >>]

\* _format_pdf_date as it would be if a date that cannot be parsed gave ""
_format_pdf_date_EmptyOnFailure(date_str) ==
  LET dt == Strptime(Take(RemovePair(date_str, "D", ":"), 8))
  IN IF dt.ok THEN [ok |-> TRUE, val |-> Strftime(dt)] ELSE [ok |-> TRUE, val |-> << >>]

\* _format_pdf_date as it would be if it kept ten characters of the text
_format_pdf_date_TenCharacters(date_str) ==
  LET dt == Strptime(Take(RemovePair(date_str, "D", ":"), 10))
  IN IF dt.ok THEN [ok |-> TRUE, val |-> Strftime(dt)] ELSE NoText

_format_pdf_date(date_str) ==
  LET dt == Strptime(Take(RemovePair(date_str, "D", ":"), 8))
  IN IF dt.ok THEN [ok |-> TRUE, val |-> Strftime(dt)] ELSE NoText

(***************************************************************************)
(* The validator's verification-URL pattern (re.IGNORECASE):               *)
(* ^(?:https:\\)?www\.citiprogram\.org/verify/\?w<uuid>-(\d{8})$           *)
(***************************************************************************)
\* the optional prefix as written in the pattern: "https:" and ONE backslash
UrlSchemePrefix == <<"h","t","t","p","s",":","\\">>

UrlHost ==
  <<"w","w","w",".","c","i","t","i","p","r","o","g","r","a","m",".","o","r","g",
    "/","v","e","r","i","f","y","/","?","w">>

IsHex(c) == IsDigit(c) \/ LowerChar(c) \in HexLetters

\* [0-9a-f]{8}-[0-9a-f]{4}-[0-9a-f]{4}-[0-9a-f]{4}-[0-9a-f]{12}
IsUuid(u) ==
  /\ Len(u) = 36
  /\ \A i \in 1..36 : IF i \in {9, 14, 19, 24} THEN u[i] = "-" ELSE IsHex(u[i])

\* www\.citiprogram\.org/verify/\?w<uuid>-(\d{8})$ matched at the start of s;
\* $ matches at the end of the text or before one final newline
UrlBodyMatches(s) ==
  /\ \/ Len(s) = 74
     \/ Len(s) = 75 /\ s[75] = "\n"
  /\ Lower(SubSeq(s, 1, 29)) = UrlHost
  /\ IsUuid(SubSeq(s, 30, 65))
  /\ s[66] = "-"
  /\ \A i \in 67..74 : IsDigit(s[i])

\* valid_url_pattern as it would be if the pattern demanded "https://"
valid_url_pattern_SchemeRequired(s) ==
  IF Len(s) >= 8 /\ Lower(SubSeq(s, 1, 8)) = <<"h","t","t","p","s",":","/","/">>
     /\ UrlBodyMatches(Drop(s, 8))
    THEN [ok |-> TRUE, val |-> SubSeq(s, 75, 82)]
    ELSE NoText

\* valid_url_pattern.search(verification_url): ok = FALSE is "no match",
\* val is groups.group(1)
valid_url_pattern(s) ==
  IF UrlBodyMatches(s)
    THEN [ok |-> TRUE, val |-> SubSeq(s, 67, 74)]
  ELSE IF Len(s) >= 7 /\ Lower(SubSeq(s, 1, 7)) = UrlSchemePrefix
          /\ UrlBodyMatches(Drop(s, 7))
    THEN [ok |-> TRUE, val |-> SubSeq(s, 74, 81)]
  ELSE NoText

(***************************************************************************)
(* _verify_with_metadata_and_submitted_text, after the inference call has  *)
(* returned structured_output.                                             *)
(***************************************************************************)
\* extraction_result.metadata = None
NoMetadata == [present |-> FALSE, creation_date |-> << >>]

\* the name comparison of the validator: replace(" ", "").lower()
NameKey(name) == Lower(RemoveChar(name, " "))

\* the validator as it would be without the comparison of the names
_verify_without_name_check(student_name, doc_metadata, structured_output) ==
  IF ~doc_metadata.present THEN "null"
  ELSE
    LET creation_date == _format_pdf_date(doc_metadata.creation_date)
        groups == valid_url_pattern(structured_output.verification_url)
    IN IF ~creation_date.ok THEN "error"
       ELSE IF creation_date.val # structured_output.generated_on THEN "null"
       ELSE IF ~groups.ok \/ groups.val # structured_output.record_id THEN "null"
       ELSE "record"

\* the validator as it would be without the comparison of the code the URL
\* ends in with the record id
_verify_without_record_id_check(student_name, doc_metadata, structured_output) ==
  IF ~doc_metadata.present THEN "null"
  ELSE
    LET creation_date == _format_pdf_date(doc_metadata.creation_date)
        groups == valid_url_pattern(structured_output.verification_url)
    IN IF ~creation_date.ok THEN "error"
       ELSE IF creation_date.val # structured_output.generated_on THEN "null"
       ELSE IF NameKey(student_name) # NameKey(structured_output.student_name)
         THEN "null"
       ELSE IF ~groups.ok THEN "null"
       ELSE "record"

\* result "record": structured_output is returned; "null": None is returned;
\* "error": the ValueError of _format_pdf_date is re-raised
_verify_with_metadata_and_submitted_text(student_name, doc_metadata, structured_output) ==
  IF ~doc_metadata.present THEN "null"
  ELSE
    LET creation_date == _format_pdf_date(doc_metadata.creation_date)
        groups == valid_url_pattern(structured_output.verification_url)
    IN IF ~creation_date.ok THEN "error"
       ELSE IF creation_date.val # structured_output.generated_on THEN "null"
       ELSE IF NameKey(student_name) # NameKey(structured_output.student_name)
         THEN "null"
       ELSE IF ~groups.ok \/ groups.val # structured_output.record_id THEN "null"
       ELSE "record"

(***************************************************************************)
(* _verify_with_cross_check_text, after the second inference call has      *)
(* returned cross_check_output.                                            *)
(***************************************************************************)
\* position q of s lies in a match of \(.*?\): some "(" at p <= q has no ")"
\* between itself and q, and the first ")" from q on is on the same line as p
InParens(s, q) ==
  \E p \in 1..q :
    /\ s[p] = "("
    /\ \A k \in p..(q-1) : s[k] # ")"
    /\ \E e \in q..Len(s) :
         /\ s[e] = ")"
         /\ \A k \in q..(e-1) : s[k] # ")"
         /\ \A k \in (p+1)..(e-1) : s[k] # "\n"

\* re.sub(r"\(.*?\)", "", s): the leftmost non-overlapping shortest matches
\* are removed
StripParens(s) ==
  KeepAt(s, SelectSeq(Positions(s), LAMBDA q : ~InParens(s, q)))

\* clean as it would be without lower()
clean_KeepsCase(val) ==
  IF val = << >> THEN << >>
  ELSE RemoveChar(StripParens(val), " ")

\* clean(val) of the cross-check
clean(val) ==
  IF val = << >> THEN << >>
  ELSE Lower(RemoveChar(StripParens(val), " "))

\* structured_output.model_dump().keys() without generated_on, in the order
\* the schema declares the fields
CrossCheckFields ==
  << "student_name", "record_id", "verification_url", "expiration_date",
     "curriculum_group", "course_learner_group", "university_name" >>

FieldNameChars ==
  [ student_name |-> <<"s","t","u","d","e","n","t","_","n","a","m","e">>,
    record_id |-> <<"r","e","c","o","r","d","_","i","d">>,
    verification_url |->
      <<"v","e","r","i","f","i","c","a","t","i","o","n","_","u","r","l">>,
    expiration_date |->
      <<"e","x","p","i","r","a","t","i","o","n","_","d","a","t","e">>,
    curriculum_group |->
      <<"c","u","r","r","i","c","u","l","u","m","_","g","r","o","u","p">>,
    course_learner_group |->
      <<"c","o","u","r","s","e","_","l","e","a","r","n","e","r","_","g","r","o","u","p">>,
    university_name |->
      <<"u","n","i","v","e","r","s","i","t","y","_","n","a","m","e">> ]

\* str.title()
Title(s) ==
  [i \in 1..Len(s) |->
     IF i = 1 \/ ~IsAlpha(s[i-1]) THEN UpperChar(s[i]) ELSE LowerChar(s[i])]

\* FieldTitle as it would be without .title()
FieldTitle_NoTitle(field) == ReplaceChar(FieldNameChars[field], "_", " ")

\* " ".join(field.split("_")).title()
FieldTitle(field) == Title(ReplaceChar(FieldNameChars[field], "_", " "))

RECURSIVE MissMatchesFrom(_, _, _)
MissMatchesFrom(i, first, second) ==
  IF i > Len(CrossCheckFields) THEN << >>
  ELSE LET field == CrossCheckFields[i]
       IN (IF clean(first[field]) # clean(second[field])
             THEN <<FieldTitle(field)>> ELSE << >>)
          \o MissMatchesFrom(i + 1, first, second)

\* the list _verify_with_cross_check_text returns
_verify_with_cross_check_text(structured_output, cross_check_output) ==
  MissMatchesFrom(1, structured_output, cross_check_output)

(***************************************************************************)
(* Data of the model: the stored submissions, the documents' metadata and  *)
(* the records the inference capability may return.                        *)
(***************************************************************************)
JaneDoe == <<"J","a","n","e"," ","D","o","e">>

JohnDoe == <<"J","o","h","n"," ","D","o","e">>

\* the submissions in the database and f"{user.first_name} {user.last_name}"
\* of the student who submitted each
Submissions == {"s1", "s2"}

StudentName == [s1 |-> JaneDoe, s2 |-> JohnDoe]

StudentUserId == [s1 |-> "u1", s2 |-> "u2"]

\* an id no CertificateSubmission row has
NoSuchSubmission == "s0"

SubmissionIds == Submissions \cup {NoSuchSubmission}

\* creation dates of the submitted document's metadata; << >> is None
CreationDate14 ==
  <<"D",":","2","0","2","5","0","1","1","4","0","3","1","9","0","2",
    "-","0","5","'","0","0","'">>

CreationDate15 ==
  <<"D",":","2","0","2","5","0","1","1","5","0","3","1","9","0","2",
    "-","0","5","'","0","0","'">>

\* a creation date that is no PDF date string
CreationDateDashed == <<"D",":","2","0","2","5","-","0","1","-","1","4">>

CreationDates ==
  [ d14 |-> CreationDate14, d15 |-> CreationDate15, none |-> << >>,
    dashed |-> CreationDateDashed ]

Uuid ==
  <<"0","1","2","3","a","b","c","d","-","0","1","2","3","-","a","b","c","d",
    "-","0","1","2","3","-","0","1","2","3","4","5","6","7","8","9","a","b">>

Code20250114 == <<"2","0","2","5","0","1","1","4">>

Code20250115 == <<"2","0","2","5","0","1","1","5">>

\* www.citiprogram.org/verify/?w<uuid>-20250114
UrlA == UrlHost \o Uuid \o <<"-">> \o Code20250114

\* https://www.citiprogram.org/verify/?w<uuid>-20250114
UrlAHttps == <<"h","t","t","p","s",":","/","/">> \o UrlA

GeneratedOn14 == <<"1","4","-","J","a","n","-","2","0","2","5">>

GeneratedOn15 == <<"1","5","-","J","a","n","-","2","0","2","5">>

RecordA ==
  [ student_name |-> JaneDoe,
    record_id |-> Code20250114,
    verification_url |-> UrlA,
    expiration_date |-> <<"N","/","A">>,
    curriculum_group |-> <<"R","C","R">>,
    course_learner_group |-> <<"U","G">>,
    university_name |-> <<"S","I","T">>,
    generated_on |-> GeneratedOn14 ]

\* the records the inference calls may return, by name
Records ==
  [ A |-> RecordA,
    \* scenario A with the URL written with its scheme
    AHttps |-> [RecordA EXCEPT !.verification_url = UrlAHttps],
    \* record id differs from the code the URL ends in
    ABadId |-> [RecordA EXCEPT !.record_id = Code20250115],
    \* the second submitter's certificate, the name in another case and spacing
    John |-> [RecordA EXCEPT !.student_name = <<"J","O","H","N","d","o","e">>],
    \* differs from A in the university only
    AUni |-> [RecordA EXCEPT !.university_name = <<"M","I","T">>],
    \* differs from A in a parenthetical, in case and in generated_on
    AParen |-> [RecordA EXCEPT
                  !.curriculum_group = <<"r","c","r"," ","(","C","G",")">>,
                  !.generated_on = GeneratedOn15] ]

\* what the first inference call (submitted document) may return
Pass1Outputs == {"A", "AHttps", "ABadId", "John"}

\* what the second inference call (authoritative document) may return
Pass2Outputs == {"A", "AUni", "AParen", "John"}

(***************************************************************************)
(* Verdicts and the texts of their comments.  A text is a sequence whose   *)
(* elements are characters or whole literals of the source.                *)
(***************************************************************************)
ApproveComment == <<"Submitted certificate is valid and verified by the system.">>

TamperComment ==
  <<"Document metadata or content did not match expected values. Possible tampering detected.">>

ErrorComment ==
  <<"Unexpected error occurred during the automated verification process, thus rejected. You can resubmit or contact support.">>

MissMatchPrefix == <<"The following fields did not match during cross-check.\n ">>

\* InitialVerdict as it would be with a rejecting default
InitialVerdict_Reject ==
  [ decision |-> "REJECT",
    comments |-> <<ErrorComment>> ]

\* self.verdict as __init__ sets it
InitialVerdict == [decision |-> "APPROVE", comments |-> <<ApproveComment>>]

\* TamperVerdict as it would be if a failed validation asked for a manual review
TamperVerdict_ManualReview ==
  [decision |-> "MANUAL_REVIEW", comments |-> <<TamperComment>>]

\* the verdict set when the validator returns None
TamperVerdict == [decision |-> "REJECT", comments |-> <<TamperComment>>]

\* the verdict set by the except clause
ErrorVerdict == [decision |-> "REJECT", comments |-> <<ErrorComment>>]

\* the verdict set when the cross-check reports mismatches
MissMatchVerdict(miss_matches) ==
  [ decision |-> "REJECT",
    comments |-> << MissMatchPrefix \o Join(<<",", " ">>, miss_matches) >> ]

\* decision_mapping as it would be with two statuses exchanged
decision_mapping_Exchanged ==
  [ APPROVE |-> "approved", REJECT |-> "manual_review", MANUAL_REVIEW |-> "rejected" ]

\* self.decision_mapping
decision_mapping ==
  [ APPROVE |-> "approved", REJECT |-> "rejected", MANUAL_REVIEW |-> "manual_review" ]

\* the messages of the exceptions the pipeline steps raise
ErrorTexts ==
  [ lookup |-> "Certificate submission not found.",
    get_file |-> "Failed to retrieve file",
    storage |-> "storage error",
    extract |-> "Unsupported file format or parser error",
    inference |-> "inference call failed",
    date |-> "time data does not match format '%Y%m%d'",
    credentials |-> "CITI credentials not configured",
    browser |-> "browser automation error" ]

\* the DashboardStats row of the one requirement schedule both submissions
\* belong to, as computed while both were pending
InitialDashboardStats ==
  [ total_submissions_required |-> 3,
    submitted_count |-> 2, approved_count |-> 0, rejected_count |-> 0,
    pending_count |-> 2, manual_review_count |-> 0,
    not_submitted_count |-> 1,
    agent_verification_count |-> 0, manual_verification_count |-> 0 ]

\* the validator's result for each stored submission, creation date and
\* first-pass record of the model (@@ makes it a table computed once)
ValidatorResult ==
  << >> @@
  [ sid \in Submissions, d \in DOMAIN CreationDates, out \in Pass1Outputs |->
      _verify_with_metadata_and_submitted_text(
        StudentName[sid], [present |-> TRUE, creation_date |-> CreationDates[d]],
        Records[out]) ]

\* the cross-check's result for each pair of records of the model
CrossCheckResult ==
  << >> @@
  [ first \in Pass1Outputs, second \in Pass2Outputs |->
      _verify_with_cross_check_text(Records[first], Records[second]) ]

(***************************************************************************)
(* State.                                                                  *)
(***************************************************************************)
VARIABLES
  submission_status,     \* CertificateSubmission.submission_status, per row
  verification_history,  \* the VerificationHistory rows, in insertion order
  notifications,         \* the notifications enqueued by create_notification_sync
  dashboard_stats,       \* the DashboardStats row of the requirement schedule
  citi_credentials,      \* settings.CITI_USERNAME and settings.CITI_PASSWORD are set
  run,                   \* the invocation each worker is executing or has finished
  invocations,           \* the number of invocations started
  call                   \* a direct call of one function, outside the pipeline

dbvars == <<submission_status, verification_history, notifications, dashboard_stats>>

vars ==
  <<submission_status, verification_history, notifications, dashboard_stats,
    citi_credentials, run, invocations, call>>

\* an invocation that has not started; a finished one keeps only what its
\* caller and the database can still observe
IdleRun ==
  [ pc |-> "idle",
    submission_id |-> "none",
    located |-> FALSE,            \* submission_data holds the rows
    old_status |-> "none",        \* submission.submission_status as loaded
    verdict |-> InitialVerdict,   \* self.verdict
    submitted_extraction |-> "unset", \* metadata.creation_date of the extraction
    structured_output |-> "none", \* the validator's result: "none", "null" or a record
    retrieved |-> FALSE,          \* download_certificate_from_url returned
    upload_result |-> "unset",    \* the storage put reported success or failure
    cross_checked |-> FALSE,      \* _verify_with_cross_check_text returned
    miss_matches |-> << >>,       \* the list it returned
    exc |-> "none",               \* what left the try block: Exception or CancelledError
    error |-> "none",             \* str(e) as logged by the except clause
    \* what the collaborators returned to this invocation: the creation date
    \* of the submitted document and the records of the two inference calls
    inputs |-> [creation_date |-> "unset", pass1 |-> "unset", pass2 |-> "unset"],
    calls |-> [get_file |-> 0, extract |-> 0, inference |-> 0,
               download |-> 0, upload |-> 0],
    appended |-> 0,               \* history rows this invocation has inserted
    raised |-> "none" ]           \* the exception its caller received

\* the call leaves verify_certificate_submission
Returned(rr, exception) ==
  [IdleRun EXCEPT !.pc = "done", !.submission_id = rr.submission_id,
                  !.located = rr.located, !.appended = rr.appended,
                  !.raised = exception]

\* after _save_verification_result: what the rest of the finally clause
\* uses, and the record of how the try block was left
Saved(rr) ==
  [IdleRun EXCEPT !.pc = "stats", !.submission_id = rr.submission_id,
                  !.located = rr.located, !.verdict = rr.verdict,
                  !.structured_output = rr.structured_output,
                  !.retrieved = rr.retrieved, !.cross_checked = rr.cross_checked,
                  !.miss_matches = rr.miss_matches, !.exc = rr.exc,
                  !.error = rr.error, !.appended = rr.appended + 1]

\* Finally as it would be if the finally clause went on to persist without
\* the rows of the submission
Finally_Unguarded(rr) == [rr EXCEPT !.pc = "save"]

\* the finally clause up to its first step: submission_data["submission"] of
\* the empty dict is a KeyError
Finally(rr) ==
  IF rr.located THEN [rr EXCEPT !.pc = "save"] ELSE Returned(rr, "KeyError")

\* OnException as it would be without the finally clause: the call returns
OnException_NoFinally(rr, text) ==
  Returned([rr EXCEPT !.verdict = ErrorVerdict, !.exc = "Exception", !.error = text],
           "none")

\* OnException as it would be if the comment quoted str(e)
OnException_QuotesError(rr, text) ==
  Finally([rr EXCEPT !.verdict = [decision |-> "REJECT",
                                  comments |-> <<ErrorComment \o <<text>>>>],
                     !.exc = "Exception", !.error = text])

\* except Exception as e: the error verdict, then the finally clause
OnException(rr, text) ==
  Finally([rr EXCEPT !.verdict = ErrorVerdict, !.exc = "Exception", !.error = text])

\* a CancelledError is no Exception: only the finally clause runs
OnCancelled(rr) == Finally([rr EXCEPT !.exc = "CancelledError"])

Called(rr, what) == [rr EXCEPT !.calls[what] = @ + 1]

\* no direct call of the validator is under way
NoCall ==
  [ pc |-> "idle", student_name |-> "none", metadata |-> "none",
    structured_output |-> "none", result |-> "none", llm_calls |-> 0 ]

Init ==
  /\ submission_status = [s \in Submissions |-> "pending"]
  /\ verification_history = << >>
  /\ notifications = << >>
  /\ dashboard_stats = InitialDashboardStats
  /\ citi_credentials \in BOOLEAN
  /\ run = [w \in Workers |-> IdleRun]
  /\ invocations = 0
  /\ call = NoCall

(***************************************************************************)
(* The steps of verify_certificate_submission.                             *)
(***************************************************************************)
\* Invoke as it would be if the calls shared one service instance: the call
\* starts with the verdict another call has left in self.verdict
Invoke_SharedService(r, sid) ==
  /\ run[r].pc \in {"idle", "done"}
  /\ \A q \in Workers : q < r => run[q].pc \notin {"idle", "done"}
  /\ invocations < MaxRuns
  /\ invocations' = invocations + 1
  /\ \E q \in Workers \ {r} :
       run' = [run EXCEPT ![r] = [IdleRun EXCEPT !.pc = "get_submission",
                                                !.submission_id = sid,
                                                !.verdict = run[q].verdict]]
  /\ UNCHANGED <<dbvars, citi_credentials, call>>

\* get_citi_verification_service() and the call of the method
Invoke(r, sid) ==
  /\ run[r].pc \in {"idle", "done"}
  /\ \A q \in Workers : q < r => run[q].pc \notin {"idle", "done"}
  /\ invocations < MaxRuns
  /\ invocations' = invocations + 1
  /\ run' = [run EXCEPT ![r] = [IdleRun EXCEPT !.pc = "get_submission",
                                               !.submission_id = sid]]
  /\ UNCHANGED <<dbvars, citi_credentials, call>>

\* _get_submission_data: the rows, or ValueError when there is none
GetSubmissionData(r) ==
  /\ run[r].pc = "get_submission"
  /\ LET rr == run[r] IN
       IF rr.submission_id \in Submissions
         THEN run' = [run EXCEPT ![r] =
                [rr EXCEPT !.pc = "get_file", !.located = TRUE,
                           !.old_status = submission_status[rr.submission_id]]]
         ELSE run' = [run EXCEPT ![r] = OnException(rr, ErrorTexts.lookup)]
  /\ UNCHANGED <<dbvars, citi_credentials, call, invocations>>

\* GetFile as it would be if a failed storage get were tried again
GetFile_Retry(r) ==
  /\ run[r].pc = "get_file"
  /\ LET rr == Called(run[r], "get_file") IN
       \E outcome \in {"success", "failure", "raise", "cancel"} :
         run' = [run EXCEPT ![r] =
           CASE outcome = "success" -> [rr EXCEPT !.pc = "extract_submitted"]
             [] outcome = "failure" -> rr
             [] outcome = "raise" -> OnException(rr, ErrorTexts.storage)
             [] outcome = "cancel" -> OnCancelled(rr)]
  /\ UNCHANGED <<dbvars, citi_credentials, call, invocations>>

\* minio_service.get_file and the check of its success flag
GetFile(r) ==
  /\ run[r].pc = "get_file"
  /\ LET rr == Called(run[r], "get_file") IN
       \E outcome \in {"success", "failure", "raise", "cancel"} :
         run' = [run EXCEPT ![r] =
           CASE outcome = "success" -> [rr EXCEPT !.pc = "extract_submitted"]
             [] outcome = "failure" -> OnException(rr, ErrorTexts.get_file)
             [] outcome = "raise" -> OnException(rr, ErrorTexts.storage)
             [] outcome = "cancel" -> OnCancelled(rr)]
  /\ UNCHANGED <<dbvars, citi_credentials, call, invocations>>

\* _extract_document_text of the submitted file
ExtractSubmitted(r) ==
  /\ run[r].pc = "extract_submitted"
  /\ LET rr == Called(run[r], "extract") IN
       \/ run' = [run EXCEPT ![r] = OnException(rr, ErrorTexts.extract)]
       \/ \E d \in DOMAIN CreationDates :
            run' = [run EXCEPT ![r] =
              [rr EXCEPT !.pc = "validate", !.inputs.creation_date = d,
                         !.submitted_extraction = d]]
  /\ UNCHANGED <<dbvars, citi_credentials, call, invocations>>

\* Validate as it would be if a validated record went straight to the
\* extraction of an authoritative document never retrieved
Validate_SkipsRetrieval(r) ==
  /\ run[r].pc = "validate"
  /\ LET rr == [Called(run[r], "inference") EXCEPT !.submitted_extraction = "unset"] IN
       \/ run' = [run EXCEPT ![r] = OnException(rr, ErrorTexts.inference)]
       \/ \E out \in Pass1Outputs :
            LET res == ValidatorResult[rr.submission_id,
                                       run[r].submitted_extraction, out]
                rs == [rr EXCEPT !.inputs.pass1 = out]
            IN run' = [run EXCEPT ![r] =
                 CASE res = "record" ->
                        [rs EXCEPT !.pc = "extract_cross", !.structured_output = out]
                   [] res = "null" ->
                        Finally([rs EXCEPT !.verdict = TamperVerdict,
                                           !.structured_output = "null"])
                   [] res = "error" -> OnException(rs, ErrorTexts.date)]
  /\ UNCHANGED <<dbvars, citi_credentials, call, invocations>>

\* _verify_with_metadata_and_submitted_text and the branch on its result
Validate(r) ==
  /\ run[r].pc = "validate"
  /\ LET rr == [Called(run[r], "inference") EXCEPT !.submitted_extraction = "unset"] IN
       \/ run' = [run EXCEPT ![r] = OnException(rr, ErrorTexts.inference)]
       \/ \E out \in Pass1Outputs :
            LET res == ValidatorResult[rr.submission_id,
                                       run[r].submitted_extraction, out]
                rs == [rr EXCEPT !.inputs.pass1 = out]
            IN run' = [run EXCEPT ![r] =
                 CASE res = "record" ->
                        [rs EXCEPT !.pc = "download", !.structured_output = out]
                   [] res = "null" ->
                        Finally([rs EXCEPT !.verdict = TamperVerdict,
                                           !.structured_output = "null"])
                   [] res = "error" -> OnException(rs, ErrorTexts.date)]
  /\ UNCHANGED <<dbvars, citi_credentials, call, invocations>>

\* Download as it would be without the check of the credentials
Download_NoCredentialsCheck(r) ==
  /\ run[r].pc = "download"
  /\ LET rr == Called(run[r], "download") IN
       \E outcome \in {"bytes", "raise", "cancel"} :
         run' = [run EXCEPT ![r] =
           CASE outcome = "bytes" -> [rr EXCEPT !.pc = "upload", !.retrieved = TRUE]
             [] outcome = "raise" -> OnException(rr, ErrorTexts.browser)
             [] outcome = "cancel" -> OnCancelled(rr)]
  /\ UNCHANGED <<dbvars, citi_credentials, call, invocations>>

\* download_certificate_from_url
Download(r) ==
  /\ run[r].pc = "download"
  /\ LET rr == Called(run[r], "download") IN
       IF ~citi_credentials
         THEN run' = [run EXCEPT ![r] = OnException(rr, ErrorTexts.credentials)]
         ELSE \E outcome \in {"bytes", "raise", "cancel"} :
           run' = [run EXCEPT ![r] =
             CASE outcome = "bytes" -> [rr EXCEPT !.pc = "upload", !.retrieved = TRUE]
               [] outcome = "raise" -> OnException(rr, ErrorTexts.browser)
               [] outcome = "cancel" -> OnCancelled(rr)]
  /\ UNCHANGED <<dbvars, citi_credentials, call, invocations>>

\* Upload as it would be if a failed upload were treated as a failed get is
Upload_FailureRaises(r) ==
  /\ run[r].pc = "upload"
  /\ LET rr == Called(run[r], "upload") IN
       \E outcome \in {"success", "failure", "raise", "cancel"} :
         run' = [run EXCEPT ![r] =
           CASE outcome = "success" ->
                  [rr EXCEPT !.pc = "extract_cross", !.upload_result = "success"]
             [] outcome = "failure" ->
                  OnException([rr EXCEPT !.upload_result = "failure"], ErrorTexts.storage)
             [] outcome = "raise" -> OnException(rr, ErrorTexts.storage)
             [] outcome = "cancel" -> OnCancelled(rr)]
  /\ UNCHANGED <<dbvars, citi_credentials, call, invocations>>

\* minio_service.upload_bytes: a failed upload is only logged
Upload(r) ==
  /\ run[r].pc = "upload"
  /\ LET rr == Called(run[r], "upload") IN
       \E outcome \in {"success", "failure", "raise", "cancel"} :
         run' = [run EXCEPT ![r] =
           CASE outcome \in {"success", "failure"} ->
                  [rr EXCEPT !.pc = "extract_cross",
                             !.upload_result = outcome]
             [] outcome = "raise" -> OnException(rr, ErrorTexts.storage)
             [] outcome = "cancel" -> OnCancelled(rr)]
  /\ UNCHANGED <<dbvars, citi_credentials, call, invocations>>

\* _extract_document_text of the downloaded certificate
ExtractCross(r) ==
  /\ run[r].pc = "extract_cross"
  /\ LET rr == Called(run[r], "extract") IN
       \/ run' = [run EXCEPT ![r] = OnException(rr, ErrorTexts.extract)]
       \/ run' = [run EXCEPT ![r] = [rr EXCEPT !.pc = "cross_check"]]
  /\ UNCHANGED <<dbvars, citi_credentials, call, invocations>>

\* _verify_with_cross_check_text and the branch on its result
CrossCheck(r) ==
  /\ run[r].pc = "cross_check"
  /\ LET rr == Called(run[r], "inference") IN
       \/ run' = [run EXCEPT ![r] = OnException(rr, ErrorTexts.inference)]
       \/ \E out \in Pass2Outputs :
            LET miss == CrossCheckResult[rr.structured_output, out]
            IN run' = [run EXCEPT ![r] =
                 Finally([rr EXCEPT !.inputs.pass2 = out,
                                    !.cross_checked = TRUE, !.miss_matches = miss,
                                    !.verdict = IF miss # << >>
                                                  THEN MissMatchVerdict(miss)
                                                  ELSE @])]
  /\ UNCHANGED <<dbvars, citi_credentials, call, invocations>>

(***************************************************************************)
(* The finally clause: persistence, dashboard statistics, notification.    *)
(***************************************************************************)
\* the VerificationHistory row _save_verification_result builds
HistoryRow(rr) ==
  [ submission_id |-> rr.submission_id,
    verifier_id |-> "None",
    verification_type |-> "AGENT",
    old_status |-> rr.old_status,
    new_status |-> decision_mapping[rr.verdict.decision],
    comments |-> Join(<<"\n">>, rr.verdict.comments) ]

\* _save_verification_result: one transaction that sets the status and adds
\* the history row, or a database error that reaches the caller
SaveVerificationResult(r) ==
  /\ run[r].pc = "save"
  /\ LET rr == run[r] IN
       \/ /\ submission_status' =
               [submission_status EXCEPT ![rr.submission_id] =
                  decision_mapping[rr.verdict.decision]]
          /\ verification_history' = Append(verification_history, HistoryRow(rr))
          /\ run' = [run EXCEPT ![r] = Saved(rr)]
       \/ /\ run' = [run EXCEPT ![r] = Returned(rr, "DatabaseError")]
          /\ UNCHANGED <<submission_status, verification_history>>
  /\ UNCHANGED <<notifications, dashboard_stats, citi_credentials, call, invocations>>

\* decision_deltas of _update_dashboard_stats: the keyword arguments passed
decision_deltas ==
  [ APPROVE |-> [approved_count_delta |-> 1, pending_count_delta |-> -1,
                 agent_verification_count_delta |-> 1],
    REJECT |-> [rejected_count_delta |-> 1, pending_count_delta |-> -1],
    MANUAL_REVIEW |-> [manual_review_count_delta |-> 1, pending_count_delta |-> -1] ]

\* the keyword parameters update_dashboard_stats_by_schedule declares besides
\* requirement_schedule_id
StatsKeywordParameters ==
  {"agent_verification_increment", "manual_verification_increment"}

Count(status) == Cardinality({s \in Submissions : submission_status[s] = status})

\* update_dashboard_stats_by_schedule as it would be if it kept the stored
\* counts and only added the increments
update_dashboard_stats_by_schedule_IncrementsOnly(stats, kwargs) ==
  LET arg(name) == IF name \in DOMAIN kwargs THEN kwargs[name] ELSE 0 IN
  [ stats EXCEPT
      !.agent_verification_count = @ + arg("agent_verification_increment"),
      !.manual_verification_count = @ + arg("manual_verification_increment") ]

\* update_dashboard_stats_by_schedule: the counts are recomputed from the
\* stored submissions, the two verification counters are incremented
update_dashboard_stats_by_schedule(stats, kwargs) ==
  LET arg(name) == IF name \in DOMAIN kwargs THEN kwargs[name] ELSE 0 IN
  [ stats EXCEPT
      !.submitted_count = Cardinality(Submissions),
      !.approved_count = Count("approved"),
      !.rejected_count = Count("rejected"),
      !.pending_count = Count("pending"),
      !.manual_review_count = Count("manual_review"),
      !.not_submitted_count = stats.total_submissions_required - Cardinality(Submissions),
      !.agent_verification_count = @ + arg("agent_verification_increment"),
      !.manual_verification_count = @ + arg("manual_verification_increment") ]

\* notification_codes of _notify
notification_codes ==
  [ APPROVE |-> "certificate_submission_verify",
    REJECT |-> "certificate_submission_reject",
    MANUAL_REVIEW |-> "certificate_submission_request" ]

\* the arguments _notify passes to create_notification_sync
Notification(rr) ==
  [ notification_code |-> notification_codes[rr.verdict.decision],
    entity_id |-> rr.submission_id,
    recipient_ids |-> <<StudentUserId[rr.submission_id]>> ]

\* UpdateDashboardStats as it would be if _notify were guarded on its own and
\* ran after a failed _update_dashboard_stats
UpdateDashboardStats_NotifiesAnyway(r) ==
  /\ run[r].pc = "stats"
  /\ LET rr == run[r]
         deltas == decision_deltas[rr.verdict.decision]
     IN /\ notifications' = Append(notifications, Notification(rr))
        /\ IF DOMAIN deltas \subseteq StatsKeywordParameters
             THEN /\ dashboard_stats' =
                       update_dashboard_stats_by_schedule(dashboard_stats, deltas)
                  /\ run' = [run EXCEPT ![r] = Returned(rr, rr.exc)]
             ELSE /\ run' = [run EXCEPT ![r] = Returned(rr, "TypeError")]
                  /\ UNCHANGED dashboard_stats
  /\ UNCHANGED <<submission_status, verification_history, citi_credentials, call, invocations>>

\* _update_dashboard_stats followed by _notify.  The call of
\* update_dashboard_stats_by_schedule with a keyword it does not declare is a
\* TypeError, which leaves the finally clause before _notify.
UpdateDashboardStats(r) ==
  /\ run[r].pc = "stats"
  /\ LET rr == run[r]
         deltas == decision_deltas[rr.verdict.decision]
     IN IF DOMAIN deltas \subseteq StatsKeywordParameters
          THEN /\ dashboard_stats' =
                    update_dashboard_stats_by_schedule(dashboard_stats, deltas)
               /\ notifications' = Append(notifications, Notification(rr))
               /\ run' = [run EXCEPT ![r] = Returned(rr, rr.exc)]
          ELSE /\ run' = [run EXCEPT ![r] = Returned(rr, "TypeError")]
               /\ UNCHANGED <<notifications, dashboard_stats>>
  /\ UNCHANGED <<submission_status, verification_history, citi_credentials, call, invocations>>

Next ==
  \E r \in Workers :
    \/ \E sid \in SubmissionIds : Invoke(r, sid)
    \/ GetSubmissionData(r)
    \/ GetFile(r)
    \/ ExtractSubmitted(r)
    \/ Validate(r)
    \/ Download(r)
    \/ Upload(r)
    \/ ExtractCross(r)
    \/ CrossCheck(r)
    \/ SaveVerificationResult(r)
    \/ UpdateDashboardStats(r)

Spec == Init /\ [][Next]_vars

\* the stage of the run an invocation is in: FETCHING_SUBMISSION (1) to
\* CROSS_CHECKING (6) inside the try block, FINALIZED (7) from the finally
\* clause on; 0 before the first invocation
Stage(rr) ==
  CASE rr.pc \in {"get_submission", "get_file"} -> 1
    [] rr.pc = "extract_submitted" -> 2
    [] rr.pc = "validate" -> 3
    [] rr.pc \in {"download", "upload"} -> 4
    [] rr.pc = "extract_cross" -> 5
    [] rr.pc = "cross_check" -> 6
    [] rr.pc \in {"save", "stats", "done"} -> 7
    [] OTHER -> 0

\* the steps of the invocation worker r is executing
Step(r) ==
  \/ GetSubmissionData(r)
  \/ GetFile(r)
  \/ ExtractSubmitted(r)
  \/ Validate(r)
  \/ Download(r)
  \/ Upload(r)
  \/ ExtractCross(r)
  \/ CrossCheck(r)
  \/ SaveVerificationResult(r)
  \/ UpdateDashboardStats(r)

\* the invocations of LiveSpec
LiveInvoke(r, sid) == invocations < MaxLiveRuns /\ Invoke(r, sid)

LiveNext == \E r \in Workers : (\E sid \in SubmissionIds : LiveInvoke(r, sid)) \/ Step(r)

\* every awaited call of a started invocation returns or raises, so the
\* invocation takes its next step; nothing obliges a caller to start one
LiveSpec == Init /\ [][LiveNext]_vars /\ \A r \in Workers : WF_vars(Step(r))

(***************************************************************************)
(* The validator called on its own: _verify_with_metadata_and_submitted_   *)
(* text(student_name, extraction_result) for an extraction_result whose    *)
(* metadata may be None, as DocExtractionResult allows.                    *)
(***************************************************************************)
\* student_name arguments
ValidatorNames ==
  [ Jane |-> JaneDoe,
    John |-> JohnDoe,
    JaneLower |-> <<"j","a","n","e"," "," ","d","o","e">>,
    JaneTab |-> <<"J","a","n","e","\t","D","o","e">> ]

\* extraction_result.metadata arguments: None, or a PyMuPDFMetadata with a
\* creation_date (<< >> is None)
ValidatorMetadata ==
  [ absent |-> NoMetadata,
    d14 |-> [present |-> TRUE, creation_date |-> CreationDate14],
    d15 |-> [present |-> TRUE, creation_date |-> CreationDate15],
    none |-> [present |-> TRUE, creation_date |-> << >>],
    dashed |-> [present |-> TRUE, creation_date |-> CreationDateDashed] ]

UuidUpper ==
  <<"0","1","2","3","A","B","C","D","-","0","1","2","3","-","A","B","C","D",
    "-","0","1","2","3","-","0","1","2","3","4","5","6","7","8","9","A","B">>

\* records the inference call may return to the validator, besides Records
ValidatorOnlyRecords ==
  [ \* the UUID in capital letters
    AUpper |-> [RecordA EXCEPT
                  !.verification_url = UrlHost \o UuidUpper \o <<"-">> \o Code20250114],
    \* another character where the host has its first dot
    AHost |-> [RecordA EXCEPT !.verification_url = [UrlA EXCEPT ![4] = "x"]],
    \* a code of seven digits, equal to the record id
    AShort |-> [RecordA EXCEPT
                  !.record_id = Take(Code20250114, 7),
                  !.verification_url = Take(UrlA, Len(UrlA) - 1)],
    \* a line feed after the code
    ATrail |-> [RecordA EXCEPT !.verification_url = UrlA \o <<"\n">>],
    \* the name written with a tab
    ATab |-> [RecordA EXCEPT !.student_name = <<"J","a","n","e","\t","D","o","e">>] ]

ValidatorRecords == Records @@ ValidatorOnlyRecords

\* a call of the validator with its arguments, before its first statement
ValidatorCall(name, metadata) ==
  [ pc |-> "inference", student_name |-> name, metadata |-> metadata,
    structured_output |-> "none", result |-> "none", llm_calls |-> 0 ]

ValidatorInit ==
  /\ submission_status = [s \in Submissions |-> "pending"]
  /\ verification_history = << >>
  /\ notifications = << >>
  /\ dashboard_stats = InitialDashboardStats
  /\ citi_credentials = TRUE
  /\ run = [w \in Workers |-> IdleRun]
  /\ invocations = 0
  /\ \E name \in DOMAIN ValidatorNames, metadata \in DOMAIN ValidatorMetadata :
       call = ValidatorCall(name, metadata)

\* self.llm_client.chat.completions.create: the first statement after
\* doc_metadata is read; what it raises is logged and re-raised
ValidatorInference ==
  /\ call.pc = "inference"
  /\ \/ call' = [call EXCEPT !.pc = "returned", !.llm_calls = @ + 1,
                             !.result = "Exception"]
     \/ \E out \in DOMAIN ValidatorRecords :
          call' = [call EXCEPT !.pc = "checks", !.llm_calls = @ + 1,
                               !.structured_output = out]
  /\ UNCHANGED <<dbvars, citi_credentials, run, invocations>>

\* the checks of the metadata, the creation date, the names and the URL
ValidatorChecks ==
  /\ call.pc = "checks"
  /\ LET res == _verify_with_metadata_and_submitted_text(
                  ValidatorNames[call.student_name],
                  ValidatorMetadata[call.metadata],
                  ValidatorRecords[call.structured_output])
     IN call' = [call EXCEPT !.pc = "returned",
                             !.result = IF res = "error" THEN "ValueError" ELSE res]
  /\ UNCHANGED <<dbvars, citi_credentials, run, invocations>>

ValidatorNext == ValidatorInference \/ ValidatorChecks

ValidatorSpec == ValidatorInit /\ [][ValidatorNext]_vars

(***************************************************************************)
(* The functions below are called on their own, each in a specification    *)
(* of its own that leaves the pipeline idle.                               *)
(***************************************************************************)
PipelineIdle ==
  /\ submission_status = [s \in Submissions |-> "pending"]
  /\ verification_history = << >>
  /\ notifications = << >>
  /\ dashboard_stats = InitialDashboardStats
  /\ citi_credentials = TRUE
  /\ run = [w \in Workers |-> IdleRun]
  /\ invocations = 0

(***************************************************************************)
(* _verify_with_cross_check_text(structured_output, cross_check_extraction)*)
(***************************************************************************)
\* records for the cross-check, besides Records; each differs from RecordA
\* in the fields named
CrossCheckOnlyRecords ==
  [ \* course_learner_group in small letters with spaces
    ACase |-> [RecordA EXCEPT !.course_learner_group = <<"u"," ","g"," ">>],
    \* expiration_date
    AExp |-> [RecordA EXCEPT
                !.expiration_date = <<"0","1","-","J","a","n","-","2","0","2","6">>],
    \* course_learner_group and university_name
    ATwo |-> [RecordA EXCEPT !.course_learner_group = <<"P","G">>,
                             !.university_name = <<"K","M","U","T","T">>],
    \* curriculum_group with a tab inside
    ATabbed |-> [RecordA EXCEPT !.curriculum_group = <<"R","\t","C","R">>],
    \* curriculum_group with two annotations
    AMulti |-> [RecordA EXCEPT
                  !.curriculum_group = <<"R","C","R"," ","(","a",")"," ","(","b",")">>],
    \* curriculum_group with an annotation inside an annotation
    ANested |-> [RecordA EXCEPT
                   !.curriculum_group =
                     <<"R","C","R"," ","(","a"," ","(","b",")"," ","c",")">>] ]

CrossCheckRecords == Records @@ CrossCheckOnlyRecords

CrossCheckCall(first) ==
  [ pc |-> "cross_inference", structured_output |-> first,
    cross_check_output |-> "none", result |-> "none", miss_matches |-> << >> ]

CrossCheckInit ==
  /\ PipelineIdle
  /\ \E first \in DOMAIN CrossCheckRecords : call = CrossCheckCall(first)

\* the inference call on the text of the authoritative document; what it
\* raises is re-raised
CrossCheckInference ==
  /\ call.pc = "cross_inference"
  /\ \/ call' = [call EXCEPT !.pc = "returned", !.result = "Exception"]
     \/ \E second \in DOMAIN CrossCheckRecords :
          call' = [call EXCEPT !.pc = "compare", !.cross_check_output = second]
  /\ UNCHANGED <<dbvars, citi_credentials, run, invocations>>

\* the comparison of the fields and the list returned
CrossCheckCompare ==
  /\ call.pc = "compare"
  /\ call' = [call EXCEPT
       !.pc = "returned", !.result = "list",
       !.miss_matches =
         _verify_with_cross_check_text(CrossCheckRecords[call.structured_output],
                                       CrossCheckRecords[call.cross_check_output])]
  /\ UNCHANGED <<dbvars, citi_credentials, run, invocations>>

CrossCheckNext == CrossCheckInference \/ CrossCheckCompare

CrossCheckSpec == CrossCheckInit /\ [][CrossCheckNext]_vars

(***************************************************************************)
(* DocumentService.extract_text(file_content, filename) called on its own, *)
(* and what its caller in the pipeline makes of the outcome.               *)
(***************************************************************************)
\* filename arguments
Filenames ==
  [
    pdf |-> <<"c",".","p","d","f">>,
    upper |-> <<"c",".","P","D","F">>,
    mixed |-> <<"c",".","P","d","f">>,
    dotted |-> <<"d","i","r",".","d","/","c",".","v","2",".","p","d","f">>,
    docx |-> <<"c",".","d","o","c","x">>,
    bare |-> <<"c">>,
    png |-> <<"c",".","p","d","f",".","p","n","g">>,
    hidden |-> <<".","p","d","f">>,
    dirdot |-> <<"a",".","p","d","f","/","c">>,
    spaced |-> <<"c",".","p","d","f"," ">> ]

\* len(result.text.strip()) of the digital extraction
DigitalTextLengths == {0, 1, 50, 51, 60}

\* len(doc) of the documents
PageCounts == {1, 3}

\* PurePath.name: the last component of the path
PathName(filename) ==
  LET slashes == {i \in 1..Len(filename) : filename[i] = "/"}
  IN IF slashes = {} THEN filename
     ELSE Drop(filename, CHOOSE i \in slashes : \A j \in slashes : j <= i)

\* PurePath.suffix: from the last dot of the name on, unless that dot is the
\* name's first or last character
PathSuffix(filename) ==
  LET name == PathName(filename)
      dots == {i \in 1..Len(name) : name[i] = "."}
  IN IF dots = {} THEN << >>
     ELSE LET i == CHOOSE k \in dots : \A j \in dots : j <= k
          IN IF 1 < i /\ i < Len(name) THEN Drop(name, i - 1) ELSE << >>

\* s.lstrip(".")
LstripDots(s) ==
  LET others == {i \in 1..Len(s) : s[i] # "."}
  IN IF others = {} THEN << >>
     ELSE Drop(s, (CHOOSE i \in others : \A j \in others : i <= j) - 1)

\* file_extension = Path(filename).suffix.lower().lstrip(".")
file_extension(filename) == LstripDots(Lower(PathSuffix(filename)))

\* supported_extensions as it would be with a second format
supported_extensions_WithPng == {<<"p","d","f">>, <<"p","n","g">>}

\* self.supported_extensions
supported_extensions == {<<"p","d","f">>}

\* the invocation of the pipeline that calls extract_text
ExtractingRun == [IdleRun EXCEPT !.pc = "extract_submitted", !.located = TRUE]

ExtractCall(filename, length, page_count) ==
  [ pc |-> "extension", filename |-> filename, digital_length |-> length,
    page_count |-> page_count, result |-> "none", error |-> "none",
    parser_calls |-> 0,          \* calls of _extract_with_pymupdf
    ocr_calls |-> 0,             \* calls of _extract_with_tesseract
    ocr_pages |-> {},            \* the page numbers OCR has loaded
    verdict |-> ExtractingRun.verdict ]

ExtractInit ==
  /\ PipelineIdle
  /\ \E filename \in DOMAIN Filenames, length \in DigitalTextLengths,
        page_count \in PageCounts :
       call = ExtractCall(filename, length, page_count)

\* the check of the extension: an extension outside supported_extensions
\* raises, and except Exception raises Exception(str(e))
ExtractCheckExtension ==
  /\ call.pc = "extension"
  /\ LET extension == file_extension(Filenames[call.filename]) IN
       IF extension \notin supported_extensions
         THEN call' = [call EXCEPT !.pc = "raised",
                         !.error = <<"Unsupported file format .">> \o extension]
         ELSE call' = [call EXCEPT !.pc = "pymupdf"]
  /\ UNCHANGED <<dbvars, citi_credentials, run, invocations>>

\* ExtractWithPymupdf as it would be without the length threshold: the
\* digital result is never returned
ExtractWithPymupdf_AlwaysOcr ==
  /\ call.pc = "pymupdf"
  /\ \/ call' = [call EXCEPT !.pc = "raised", !.parser_calls = @ + 1,
                   !.error = <<"parser error">>]
     \/ call' = [call EXCEPT !.parser_calls = @ + 1,
                   !.result = [method |-> "pymupdf", pages |-> call.page_count,
                               length |-> call.digital_length],
                   !.pc = "tesseract"]
  /\ UNCHANGED <<dbvars, citi_credentials, run, invocations>>

\* _extract_with_pymupdf, which reads every page, and the test of its
\* result: text of more than 50 characters is returned
ExtractWithPymupdf ==
  /\ call.pc = "pymupdf"
  /\ \/ call' = [call EXCEPT !.pc = "raised", !.parser_calls = @ + 1,
                   !.error = <<"parser error">>]
     \/ call' = [call EXCEPT !.parser_calls = @ + 1,
                   !.result = [method |-> "pymupdf", pages |-> call.page_count,
                               length |-> call.digital_length],
                   !.pc = IF call.digital_length # 0 /\ call.digital_length > 50
                            THEN "returned" ELSE "tesseract"]
  /\ UNCHANGED <<dbvars, citi_credentials, run, invocations>>

\* ExtractWithTesseract as it would be if it read every page
ExtractWithTesseract_AllPages ==
  /\ call.pc = "tesseract"
  /\ \/ call' = [call EXCEPT !.pc = "raised", !.ocr_calls = @ + 1,
                   !.error = <<"ocr error">>]
     \/ \E length \in DigitalTextLengths :
          call' = [call EXCEPT !.pc = "returned", !.ocr_calls = @ + 1,
                     !.ocr_pages = 0..(call.page_count - 1),
                     !.result = [method |-> "tesseract", pages |-> call.page_count,
                                 length |-> length]]
  /\ UNCHANGED <<dbvars, citi_credentials, run, invocations>>

\* _extract_with_tesseract: load_page(0) only, pages=1; its result is
\* returned whatever its text
ExtractWithTesseract ==
  /\ call.pc = "tesseract"
  /\ \/ call' = [call EXCEPT !.pc = "raised", !.ocr_calls = @ + 1,
                   !.error = <<"ocr error">>]
     \/ \E length \in DigitalTextLengths :
          call' = [call EXCEPT !.pc = "returned", !.ocr_calls = @ + 1,
                     !.ocr_pages = {0},
                     !.result = [method |-> "tesseract", pages |-> 1,
                                 length |-> length]]
  /\ UNCHANGED <<dbvars, citi_credentials, run, invocations>>

\* the caller: _extract_document_text re-raises, and except Exception of
\* verify_certificate_submission sets the error verdict
ExtractCaller ==
  /\ call.pc \in {"raised", "returned"}
  /\ IF call.pc = "raised"
       THEN call' = [call EXCEPT !.pc = "failed",
                       !.verdict = OnException(ExtractingRun, call.error).verdict]
       ELSE call' = [call EXCEPT !.pc = "extracted"]
  /\ UNCHANGED <<dbvars, citi_credentials, run, invocations>>

ExtractNext ==
  \/ ExtractCheckExtension
  \/ ExtractWithPymupdf
  \/ ExtractWithTesseract
  \/ ExtractCaller

ExtractSpec == ExtractInit /\ [][ExtractNext]_vars

(***************************************************************************)
(* download_certificate_from_url(url) called on its own.                   *)
(***************************************************************************)
\* values of settings.CITI_USERNAME and settings.CITI_PASSWORD: None, "" or
\* a non-empty text
CredentialValues == {"None", "empty", "set"}

\* all([...]) takes a value for true when it is a non-empty text
Truthy(value) == value = "set"

NoError == [type |-> "none", at |-> "none"]

FetchCall(username, password) ==
  [ pc |-> "credentials", username |-> username, password |-> password,
    playwright |-> "none",       \* async_playwright(): none, started, stopped
    browser |-> "none",          \* none, open, closed by browser.close()
    context |-> "none",          \* none, open, closed by context.close()
    launches |-> 0,              \* calls of chromium.launch
    navigations |-> 0,           \* calls of goto
    certificate_data |-> "empty",   \* b"" or the bytes of the response body
    goto_error |-> "none",       \* what the final goto raised and was swallowed
    pending |-> NoError,         \* the exception the finally clause will re-raise
    result |-> "none", error |-> NoError ]

FetchInit ==
  /\ PipelineIdle
  /\ \E username \in CredentialValues, password \in CredentialValues :
       call = FetchCall(username, password)

\* FetchCheckCredentials as it would be if only the username were checked
FetchCheckCredentials_UsernameOnly ==
  /\ call.pc = "credentials"
  /\ IF ~Truthy(call.username)
       THEN call' = [call EXCEPT !.pc = "raised",
                       !.error = [type |-> "Exception", at |-> ErrorTexts.credentials]]
       ELSE call' = [call EXCEPT !.pc = "launch"]
  /\ UNCHANGED <<dbvars, citi_credentials, run, invocations>>

\* if not all([settings.CITI_USERNAME, settings.CITI_PASSWORD]): raise
FetchCheckCredentials ==
  /\ call.pc = "credentials"
  /\ IF ~(Truthy(call.username) /\ Truthy(call.password))
       THEN call' = [call EXCEPT !.pc = "raised",
                       !.error = [type |-> "Exception", at |-> ErrorTexts.credentials]]
       ELSE call' = [call EXCEPT !.pc = "launch"]
  /\ UNCHANGED <<dbvars, citi_credentials, run, invocations>>

\* the exceptions a step of the browser automation may raise: playwright's
\* Error, its subclass TimeoutError, and a cancellation of the task
StepErrors == {"PlaywrightError", "TimeoutError", "CancelledError"}

\* async with async_playwright() and p.chromium.launch: what launch raises
\* leaves the async with, which stops the driver
FetchLaunch ==
  /\ call.pc = "launch"
  /\ \/ call' = [call EXCEPT !.pc = "new_context", !.playwright = "started",
                   !.launches = @ + 1, !.browser = "open"]
     \/ \E type \in StepErrors :
          call' = [call EXCEPT !.pc = "raised", !.playwright = "stopped",
                     !.launches = @ + 1,
                     !.error = [type |-> type, at |-> "launch"]]
  /\ UNCHANGED <<dbvars, citi_credentials, run, invocations>>

\* browser.new_context, which precedes the inner try: what it raises leaves
\* the async with without passing the finally clause
FetchNewContext ==
  /\ call.pc = "new_context"
  /\ \/ call' = [call EXCEPT !.pc = "first_goto", !.context = "open"]
     \/ \E type \in StepErrors :
          call' = [call EXCEPT !.pc = "raised", !.playwright = "stopped",
                     !.error = [type |-> type, at |-> "new_context"]]
  /\ UNCHANGED <<dbvars, citi_credentials, run, invocations>>

\* a step inside the inner try raises: except PlaywrightError re-raises, any
\* other exception propagates; both pass the finally clause
FetchRaise(at) ==
  \E type \in StepErrors :
    call' = [call EXCEPT !.pc = "close_context",
               !.pending = [type |-> type, at |-> at]]

\* context.new_page, page.goto(url) and wait_for_load_state
FetchFirstGoto ==
  /\ call.pc = "first_goto"
  /\ \/ call' = [call EXCEPT !.pc = "login", !.navigations = @ + 1]
     \/ \E type \in StepErrors :
          call' = [call EXCEPT !.pc = "close_context", !.navigations = @ + 1,
                     !.pending = [type |-> type, at |-> "first_goto"]]
  /\ UNCHANGED <<dbvars, citi_credentials, run, invocations>>

\* the click on the log-in link, the login page, the two fills and the submit
FetchLogin ==
  /\ call.pc = "login"
  /\ \/ call' = [call EXCEPT !.pc = "pdf_page"]
     \/ FetchRaise("login")
  /\ UNCHANGED <<dbvars, citi_credentials, run, invocations>>

\* pdf_page = context.new_page() and pdf_page.route(.., handle_pdf_requests)
FetchPdfPage ==
  /\ call.pc = "pdf_page"
  /\ \/ call' = [call EXCEPT !.pc = "final_goto"]
     \/ FetchRaise("pdf_page")
  /\ UNCHANGED <<dbvars, citi_credentials, run, invocations>>

\* FetchFinalGoto as it would be without the try around pdf_page.goto: the
\* abort reaches except PlaywrightError of the inner try
FetchFinalGoto_AbortRaises ==
  /\ call.pc = "final_goto"
  /\ \/ call' = [call EXCEPT !.pc = "close_context", !.navigations = @ + 1]
     \/ call' = [call EXCEPT !.pc = "close_context", !.navigations = @ + 1,
                   !.certificate_data = "bytes",
                   !.pending = [type |-> "net::ERR_ABORTED", at |-> "final_goto"]]
     \/ \E type \in StepErrors :
          call' = [call EXCEPT !.pc = "close_context", !.navigations = @ + 1,
                     !.pending = [type |-> type, at |-> "final_goto"]]
  /\ UNCHANGED <<dbvars, citi_credentials, run, invocations>>

\* pdf_page.goto(url) inside try/except PlaywrightError.  The goto returns
\* (nothing was intercepted); or handle_pdf_requests stores the response
\* body and aborts the route, and the goto raises the abort; or the goto
\* raises another playwright Error or a TimeoutError.  Every playwright Error
\* is logged and swallowed; a cancellation propagates.
FetchFinalGoto ==
  /\ call.pc = "final_goto"
  /\ \/ call' = [call EXCEPT !.pc = "close_context", !.navigations = @ + 1]
     \/ call' = [call EXCEPT !.pc = "close_context", !.navigations = @ + 1,
                   !.certificate_data = "bytes",
                   !.goto_error = "net::ERR_ABORTED"]
     \/ \E type \in {"PlaywrightError", "TimeoutError"} :
          call' = [call EXCEPT !.pc = "close_context", !.navigations = @ + 1,
                     !.goto_error = type]
     \/ call' = [call EXCEPT !.pc = "close_context", !.navigations = @ + 1,
                   !.pending = [type |-> "CancelledError", at |-> "final_goto"]]
  /\ UNCHANGED <<dbvars, citi_credentials, run, invocations>>

\* finally: await context.close(); what it raises replaces the pending
\* exception and skips browser.close()
FetchCloseContext ==
  /\ call.pc = "close_context"
  /\ \/ call' = [call EXCEPT !.pc = "close_browser", !.context = "closed"]
     \/ \E type \in StepErrors :
          call' = [call EXCEPT !.pc = "exit",
                     !.pending = [type |-> type, at |-> "close_context"]]
  /\ UNCHANGED <<dbvars, citi_credentials, run, invocations>>

\* finally: await browser.close()
FetchCloseBrowser ==
  /\ call.pc = "close_browser"
  /\ \/ call' = [call EXCEPT !.pc = "exit", !.browser = "closed"]
     \/ \E type \in StepErrors :
          call' = [call EXCEPT !.pc = "exit",
                     !.pending = [type |-> type, at |-> "close_browser"]]
  /\ UNCHANGED <<dbvars, citi_credentials, run, invocations>>

\* the end of the finally clause: the pending exception is re-raised through
\* the async with and the outer except, or certificate_data is returned
FetchExit ==
  /\ call.pc = "exit"
  /\ IF call.pending # NoError
       THEN call' = [call EXCEPT !.pc = "raised", !.playwright = "stopped",
                       !.error = call.pending, !.pending = NoError]
       ELSE call' = [call EXCEPT !.pc = "returned", !.playwright = "stopped",
                       !.result = call.certificate_data]
  /\ UNCHANGED <<dbvars, citi_credentials, run, invocations>>

FetchNext ==
  \/ FetchCheckCredentials
  \/ FetchLaunch
  \/ FetchNewContext
  \/ FetchFirstGoto
  \/ FetchLogin
  \/ FetchPdfPage
  \/ FetchFinalGoto
  \/ FetchCloseContext
  \/ FetchCloseBrowser
  \/ FetchExit

FetchSpec == FetchInit /\ [][FetchNext]_vars

(***************************************************************************)
(* _format_pdf_date(date_str) called on its own, twice on the same text.   *)
(***************************************************************************)
\* the YYYYMMDD part of the creation timestamps; the last three are no
\* calendar dates
TimestampDates ==
  [
    jan14 |-> <<"2","0","2","5","0","1","1","4">>,
    newyear |-> <<"2","0","2","5","0","1","0","1">>,
    leap |-> <<"2","0","2","4","0","2","2","9">>,
    leap2000 |-> <<"2","0","0","0","0","2","2","9">>,
    mar |-> <<"2","0","2","5","0","3","3","1">>,
    apr |-> <<"2","0","2","5","0","4","3","0">>,
    may |-> <<"1","9","9","9","0","5","0","9">>,
    jun |-> <<"2","0","2","5","0","6","1","5">>,
    jul |-> <<"2","0","2","5","0","7","0","4">>,
    aug |-> <<"2","0","2","5","0","8","2","0">>,
    sep |-> <<"2","0","2","5","0","9","0","9">>,
    oct |-> <<"2","0","2","5","1","0","0","1">>,
    nov |-> <<"2","0","1","9","1","1","3","0">>,
    yearend |-> <<"2","0","2","5","1","2","3","1">>,
    feb30 |-> <<"2","0","2","5","0","2","3","0">>,
    month13 |-> <<"2","0","2","5","1","3","0","1">>,
    nonleap |-> <<"2","1","0","0","0","2","2","9">> ]

\* what follows the date: hhmmss and the offset from UTC
TimestampSuffixes ==
  [
    issuer |-> <<"0","3","1","9","0","2","-","0","5","'","0","0","'">>,
    utc |-> <<"0","0","0","0","0","0","Z">>,
    east |-> <<"2","3","5","9","5","9","+","0","7","'","0","0","'">>,
    bare |-> <<"1","2","0","0","0","0">>,
    zero |-> <<"0","3","1","9","0","2","+","0","0","'","0","0","'">> ]

\* a creation timestamp as the metadata of a PDF holds it
Timestamp(date, suffix) ==
  <<"D", ":">> \o TimestampDates[date] \o TimestampSuffixes[suffix]

DateCall(date, suffix) ==
  [ pc |-> "format", date |-> date, suffix |-> suffix,
    date_str |-> Timestamp(date, suffix),
    first |-> NoText,            \* what the first call returned
    second |-> NoText ]          \* what the second call returned

DateInit ==
  /\ PipelineIdle
  /\ \E date \in DOMAIN TimestampDates, suffix \in DOMAIN TimestampSuffixes :
       call = DateCall(date, suffix)

\* the first call of _format_pdf_date(date_str)
DateFormat ==
  /\ call.pc = "format"
  /\ call' = [call EXCEPT !.pc = "repeat", !.first = _format_pdf_date(call.date_str)]
  /\ UNCHANGED <<dbvars, citi_credentials, run, invocations>>

\* the second call, on the same text
DateRepeat ==
  /\ call.pc = "repeat"
  /\ call' = [call EXCEPT !.pc = "formatted", !.second = _format_pdf_date(call.date_str)]
  /\ UNCHANGED <<dbvars, citi_credentials, run, invocations>>

DateNext == DateFormat \/ DateRepeat

DateSpec == DateInit /\ [][DateNext]_vars

(***************************************************************************)
(* DashboardStatsService.update_dashboard_stats_by_schedule called on its  *)
(* own with the parameters it declares, between changes of the stored      *)
(* statuses.                                                               *)
(***************************************************************************)
\* the values of CertificateSubmission.submission_status, lower-cased
SubmissionStatuses == {"pending", "approved", "rejected", "manual_review"}

\* requirement schedules: the one of the stored submissions, which has a
\* DashboardStats row, and one that has neither submissions nor a row
SchedulesWithStats == {"schedule1"}

Schedules == {"schedule1", "schedule2"}

StatsIdle == [pc |-> "idle", requirement_schedule_id |-> "none", result |-> "none"]

StatsInit ==
  /\ submission_status \in [Submissions -> SubmissionStatuses]
  /\ verification_history = << >>
  /\ notifications = << >>
  /\ dashboard_stats = InitialDashboardStats
  /\ citi_credentials = TRUE
  /\ run = [w \in Workers |-> IdleRun]
  /\ invocations = 0
  /\ call = StatsIdle

\* a stored status is changed by the commit of some verification
StatsStatusChange ==
  /\ \E s \in Submissions, status \in SubmissionStatuses :
       /\ submission_status[s] # status
       /\ submission_status' = [submission_status EXCEPT ![s] = status]
  /\ call' = StatsIdle
  /\ UNCHANGED <<verification_history, notifications, dashboard_stats,
                 citi_credentials, run, invocations>>

\* update_dashboard_stats_by_schedule(requirement_schedule_id,
\* agent_verification_increment, manual_verification_increment): ValueError
\* when the schedule has no DashboardStats row, else the recomputation and
\* its commit
StatsUpdate ==
  \E schedule \in Schedules, agent \in {0, 1}, manual \in {0, 1} :
    /\ dashboard_stats.agent_verification_count + agent <= MaxVerifications
    /\ dashboard_stats.manual_verification_count + manual <= MaxVerifications
    /\ IF schedule \notin SchedulesWithStats
         THEN /\ call' = [pc |-> "raised", requirement_schedule_id |-> schedule,
                          result |-> "ValueError"]
              /\ UNCHANGED dashboard_stats
         ELSE /\ dashboard_stats' =
                   update_dashboard_stats_by_schedule(
                     dashboard_stats,
                     [agent_verification_increment |-> agent,
                      manual_verification_increment |-> manual])
              /\ call' = [pc |-> "updated", requirement_schedule_id |-> schedule,
                          result |-> "DashboardStats"]
    /\ UNCHANGED <<submission_status, verification_history, notifications,
                   citi_credentials, run, invocations>>

StatsNext == StatsStatusChange \/ StatsUpdate

StatsSpec == StatsInit /\ [][StatsNext]_vars

(***************************************************************************)
(* Properties.                                                             *)
(***************************************************************************)
\* the invocation has left the try block and holds its final verdict
Finalizing(rr) == rr.pc \in {"save", "stats"}

\* the validator returned a record
Validated(rr) == rr.structured_output \in DOMAIN Records

\* some stored history row of the submission has this status and comment
HistoryHas(sid, status, comment) ==
  \E i \in 1..Len(verification_history) :
    /\ verification_history[i].submission_id = sid
    /\ verification_history[i].verifier_id = "None"
    /\ verification_history[i].verification_type = "AGENT"
    /\ verification_history[i].new_status = status
    /\ verification_history[i].comments = comment

UniversityName == <<"U","n","i","v","e","r","s","i","t","y"," ","N","a","m","e">>

\* C1, as stated: every invocation that has finished, whichever stage failed
\* (the lookup of the submission included), has appended exactly one
\* VerificationHistory row.
C1_OneHistoryRowPerRun ==
  \A w \in Workers : run[w].pc = "done" => run[w].appended = 1

\* C1, amended: an invocation that located its submission appends exactly one
\* VerificationHistory row, whichever later stage failed, once its persistence
\* transaction commits; an invocation that did not locate the submission, or
\* whose transaction failed, appends none; no invocation appends two.
C1_OneHistoryRowPerLocatedRun ==
  /\ Len(verification_history) <= invocations
  /\ \A w \in Workers :
       LET rr == run[w] IN
         /\ rr.appended <= 1
         /\ rr.pc = "stats" => rr.appended = 1
         /\ rr.pc \notin {"stats", "done"} => rr.appended = 0
         /\ rr.pc = "done" =>
              (rr.appended = 1 <=> rr.located /\ rr.raised # "DatabaseError")

C1_Witness ==
  \E w \in Workers :
    /\ run[w].pc = "stats"
    /\ run[w].exc = "Exception"
    /\ run[w].appended = 1
    /\ Len(verification_history) >= 1

\* C2: verify_certificate_submission never raises to its caller: every
\* finished invocation returned normally.
C2_NeverRaisesToCaller ==
  \A w \in Workers : run[w].pc = "done" => run[w].raised = "none"

\* C3: when a pipeline step raised an exception, the invocation finalizes
\* with REJECT and the one generic comment, the comment does not contain the
\* text of the error, and that is what the history row stores.
C3_ExceptionGivesGenericReject ==
  \A w \in Workers :
    LET rr == run[w] IN
      Finalizing(rr) /\ rr.exc = "Exception" =>
        /\ rr.verdict.decision = "REJECT"
        /\ rr.verdict.comments = <<ErrorComment>>
        /\ \A c \in 1..Len(rr.verdict.comments) :
             \A i \in 1..Len(rr.verdict.comments[c]) :
               rr.verdict.comments[c][i] # rr.error
        /\ rr.pc = "stats" =>
             /\ HistoryHas(rr.submission_id, "rejected", ErrorComment)
             /\ submission_status[rr.submission_id] # "pending"

C3_Witness ==
  \E w \in Workers :
    /\ run[w].pc = "stats"
    /\ run[w].exc = "Exception"
    /\ run[w].error = ErrorTexts.browser
    /\ HistoryHas(run[w].submission_id, "rejected", ErrorComment)

\* C4: an invocation persists APPROVE only if the validator returned a
\* record, the authoritative document was retrieved and the cross-check
\* found no mismatch; left in any other way (a cancellation included) it
\* does not persist APPROVE.
C4_ApproveOnlyAfterCleanPipeline ==
  \A w \in Workers :
    LET rr == run[w] IN
      rr.pc = "stats" /\ rr.verdict.decision = "APPROVE" =>
        Validated(rr) /\ rr.retrieved /\ rr.cross_checked /\ rr.miss_matches = << >>

\* C5: an invocation whose cross-check returned the empty list finalizes
\* with APPROVE and the default comment, and the commit of its persistence
\* step makes the stored status approved.
C5_EmptyMismatchApproves ==
  /\ [](\A w \in Workers :
         LET rr == run[w] IN
           Finalizing(rr) /\ rr.cross_checked /\ rr.miss_matches = << >> =>
             /\ rr.verdict.decision = "APPROVE"
             /\ rr.verdict.comments = <<ApproveComment>>
             /\ rr.pc = "stats" =>
                  HistoryHas(rr.submission_id, "approved", ApproveComment))
  /\ [][\A w \in Workers :
         /\ run[w].pc = "save" /\ run'[w].pc = "stats"
         /\ run[w].cross_checked /\ run[w].miss_matches = << >>
         => submission_status'[run[w].submission_id] = "approved"]_vars

C5_Witness ==
  \E w \in Workers :
    /\ run[w].pc = "stats"
    /\ run[w].cross_checked /\ run[w].miss_matches = << >>
    /\ run[w].verdict.decision = "APPROVE"
    /\ submission_status[run[w].submission_id] = "approved"

\* C6, as stated: submitter "Jane Doe", creation date D:20250114031902-05'00',
\* inferred record with generatedOn 14-Jan-2025, recordId 20250114 and the
\* verification URL https://www.citiprogram.org/verify/?w<uuid>-20250114,
\* no step failing: the verdict is APPROVE with the default comment.
C6_ScenarioA_UrlWithScheme ==
  \A w \in Workers :
    LET rr == run[w] IN
      /\ rr.pc = "save" /\ rr.exc = "none"
      /\ rr.submission_id = "s1"
      /\ rr.inputs.creation_date = "d14"
      /\ rr.inputs.pass1 = "AHttps"
      => /\ rr.verdict.decision = "APPROVE"
         /\ rr.verdict.comments = <<ApproveComment>>

\* C6, amended: the same scenario with the verification URL written as the
\* record schema prescribes, www.citiprogram.org/verify/?w<uuid>-20250114,
\* and an identical authoritative record gives APPROVE with the default
\* comment; with the URL written with https:// the validator returns None
\* and the verdict is the tamper-suspicion REJECT.
C6_ScenarioA ==
  /\ StudentName["s1"] = JaneDoe
  /\ \A w \in Workers :
       LET rr == run[w] IN
         /\ rr.pc = "save"
         /\ rr.submission_id = "s1"
         /\ rr.inputs.creation_date = "d14"
         => /\ rr.inputs.pass1 = "A" /\ rr.inputs.pass2 = "A" =>
                 /\ rr.verdict.decision = "APPROVE"
                 /\ rr.verdict.comments = <<ApproveComment>>
            /\ rr.inputs.pass1 = "AHttps" =>
                 /\ rr.structured_output = "null"
                 /\ rr.verdict.decision = "REJECT"
                 /\ rr.verdict.comments = <<TamperComment>>

C6_Witness ==
  \E w \in Workers :
    /\ run[w].pc = "save"
    /\ run[w].submission_id = "s1"
    /\ run[w].inputs = [creation_date |-> "d14", pass1 |-> "A", pass2 |-> "A"]
    /\ run[w].verdict.decision = "APPROVE"

\* C7: when the validator returns None (as for submitter "John Doe" and the
\* extracted name "Jane Doe") the invocation finalizes with REJECT and the
\* tamper-suspicion comment, and has made no retrieval, no upload, no second
\* extraction, no second inference call and no cross-check.
C7_ValidatorNullRejectsWithoutRetrieval ==
  \A w \in Workers :
    LET rr == run[w] IN
      /\ /\ rr.pc = "save" /\ rr.exc = "none"
         /\ rr.submission_id = "s2" /\ rr.inputs.pass1 = "A"
         => rr.structured_output = "null"
      /\ Finalizing(rr) /\ rr.structured_output = "null" =>
           /\ rr.verdict.decision = "REJECT"
           /\ rr.verdict.comments = <<TamperComment>>
           /\ ~rr.retrieved /\ ~rr.cross_checked
           /\ rr.pc = "save" =>
                /\ rr.calls.download = 0 /\ rr.calls.upload = 0
                /\ rr.calls.extract = 1 /\ rr.calls.inference = 1
           /\ rr.pc = "stats" =>
                HistoryHas(rr.submission_id, "rejected", TamperComment)

C7_Witness ==
  \E w \in Workers :
    /\ run[w].pc = "save"
    /\ run[w].submission_id = "s2"
    /\ run[w].inputs.creation_date = "d14" /\ run[w].inputs.pass1 = "A"
    /\ run[w].structured_output = "null"
    /\ run[w].verdict.comments = <<TamperComment>>

\* C8: when the validator passed and the cross-check returned mismatches,
\* the invocation finalizes with REJECT and a comment that lists the
\* mismatched field names; when only university_name differs, the one name
\* listed is "University Name".
C8_MismatchRejectsWithFieldNames ==
  \A w \in Workers :
    LET rr == run[w] IN
      /\ Finalizing(rr) /\ rr.cross_checked /\ rr.miss_matches # << >> =>
           /\ Validated(rr)
           /\ rr.verdict.decision = "REJECT"
           /\ rr.verdict.comments =
                << MissMatchPrefix \o Join(<<",", " ">>, rr.miss_matches) >>
      /\ rr.pc = "save" /\ rr.inputs.pass1 = "A" /\ rr.inputs.pass2 = "AUni" =>
           /\ rr.miss_matches = <<UniversityName>>
           /\ rr.verdict.comments = << MissMatchPrefix \o UniversityName >>

C8_Witness ==
  \E w \in Workers :
    /\ run[w].pc = "save"
    /\ run[w].inputs.pass1 = "A" /\ run[w].inputs.pass2 = "AUni"
    /\ run[w].verdict.decision = "REJECT"
    /\ run[w].miss_matches = <<UniversityName>>

\* C9: with the issuer credentials unset and the validator passed, the
\* retriever raises, the verdict is REJECT with the generic comment, and a
\* history row with verifier_id null and type AGENT is still recorded.
C9_CredentialsUnsetGivesGenericReject ==
  \A w \in Workers :
    LET rr == run[w] IN
      ~citi_credentials /\ Finalizing(rr) /\ Validated(rr) =>
        /\ rr.exc = "Exception"
        /\ rr.error = ErrorTexts.credentials
        /\ ~rr.retrieved
        /\ rr.verdict.decision = "REJECT"
        /\ rr.verdict.comments = <<ErrorComment>>
        /\ rr.pc = "stats" => HistoryHas(rr.submission_id, "rejected", ErrorComment)

C9_Witness ==
  \E w \in Workers :
    /\ ~citi_credentials
    /\ run[w].pc = "stats"
    /\ Validated(run[w])
    /\ HistoryHas(run[w].submission_id, "rejected", ErrorComment)

\* C10: every invocation that located its submission reaches the persistence
\* step; its commit stores the status the mapping gives for the decision
\* and, in the same step, appends one history row with that status as
\* new_status, the verdict's comments, verifier_id null and type AGENT; a
\* failed transaction changes neither.
C10_PersistenceStoresMappedStatus ==
  /\ [](\A w \in Workers :
          run[w].located /\ run[w].pc = "done" /\ run[w].raised # "DatabaseError"
            => run[w].appended = 1)
  /\ [][\A w \in Workers :
          run[w].pc = "save" /\ run'[w].pc # "save" =>
            LET rr == run[w]
                row == verification_history'[Len(verification_history')]
                StatusOf(decision) ==
                  CASE decision = "APPROVE" -> "approved"
                    [] decision = "REJECT" -> "rejected"
                    [] decision = "MANUAL_REVIEW" -> "manual_review"
            IN \/ /\ run'[w].pc = "stats"
                  /\ submission_status' =
                       [submission_status EXCEPT ![rr.submission_id] =
                          StatusOf(rr.verdict.decision)]
                  /\ Len(verification_history') = Len(verification_history) + 1
                  /\ SubSeq(verification_history', 1, Len(verification_history))
                       = verification_history
                  /\ row.submission_id = rr.submission_id
                  /\ row.new_status = submission_status'[rr.submission_id]
                  /\ Len(rr.verdict.comments) = 1
                  /\ row.comments = rr.verdict.comments[1]
                  /\ row.verifier_id = "None"
                  /\ row.verification_type = "AGENT"
               \/ /\ run'[w].pc = "done"
                  /\ run'[w].raised = "DatabaseError"
                  /\ UNCHANGED <<submission_status, verification_history>>]_vars

C10_Witness ==
  \E w \in Workers :
    /\ run[w].pc = "stats"
    /\ Len(verification_history) >= 1
    /\ LET row == verification_history[Len(verification_history)] IN
         /\ row.submission_id = run[w].submission_id
         /\ row.new_status = submission_status[run[w].submission_id]
         /\ row.new_status \in {"approved", "rejected"}
         /\ row.verification_type = "AGENT"

\* C11: every invocation that located its submission and persisted its
\* verdict has, when it ends, enqueued a notification with the code of its
\* decision, the submission id as entity and the student's user id as the
\* only recipient.
C11_NotificationAfterPersistence ==
  \A w \in Workers :
    run[w].pc = "done" /\ run[w].located /\ run[w].appended = 1 =>
      \E i \in 1..Len(notifications) :
        /\ notifications[i].entity_id = run[w].submission_id
        /\ notifications[i].recipient_ids = <<StudentUserId[run[w].submission_id]>>
        /\ notifications[i].notification_code \in
             {"certificate_submission_verify", "certificate_submission_reject",
              "certificate_submission_request"}

\* C12: every invocation that located its submission and persisted its
\* verdict has, when it ends, had its deltas accepted by the dashboard-stats
\* operation: the operation completed and the aggregate's pending count went
\* down while a decided count went up.
C12_DashboardDeltaApplied ==
  \A w \in Workers :
    run[w].pc = "done" /\ run[w].located /\ run[w].appended = 1 =>
      /\ run[w].raised # "TypeError"
      /\ dashboard_stats.pending_count < InitialDashboardStats.pending_count
      /\ dashboard_stats.approved_count + dashboard_stats.rejected_count
           + dashboard_stats.manual_review_count > 0

\* the verdict the outcomes of an invocation's own pipeline determine
OwnVerdict(rr) ==
  IF rr.exc = "Exception" THEN ErrorVerdict
  ELSE IF rr.structured_output = "null" THEN TamperVerdict
  ELSE IF rr.cross_checked /\ rr.miss_matches # << >>
    THEN MissMatchVerdict(rr.miss_matches)
  ELSE InitialVerdict

\* C13: under every interleaving of invocations, the verdict an invocation
\* holds when it finalizes is the one its own pipeline outcomes determine;
\* a stored status changes only by the commit of an invocation for that very
\* submission, to the status of that invocation's own verdict, and the row
\* appended with it carries that invocation's own comments; no step of one
\* invocation changes the verdict another one holds.
C13_VerdictIsLocalToItsRun ==
  /\ [](\A w \in Workers :
          Finalizing(run[w]) => run[w].verdict = OwnVerdict(run[w]))
  /\ [][/\ \A s \in Submissions :
             submission_status'[s] # submission_status[s] =>
               \E w \in Workers :
                 /\ run[w].pc = "save" /\ run'[w].pc = "stats"
                 /\ run[w].submission_id = s
                 /\ submission_status'[s] =
                      decision_mapping[OwnVerdict(run[w]).decision]
                 /\ verification_history' =
                      Append(verification_history,
                             [ HistoryRow(run[w]) EXCEPT
                                 !.comments = OwnVerdict(run[w]).comments[1] ])
        /\ \A w, q \in Workers :
             /\ w # q /\ run'[q] # run[q]
             /\ run[w].pc \notin {"idle", "done"}
             => run'[w].verdict = run[w].verdict]_vars

C13_Witness ==
  \E w, q \in Workers :
    /\ run[w].submission_id = "s1" /\ run[q].submission_id = "s2"
    /\ run[w].pc = "stats" /\ run[q].pc = "save"
    /\ run[w].verdict.decision = "REJECT" /\ run[q].verdict.decision = "APPROVE"
    /\ run[q].cross_checked
    /\ HistoryHas("s1", "rejected", run[w].verdict.comments[1])

\* C14: invoking verify again for the same submission with the same outcome
\* leaves the persisted state as a single finalization left it: no
\* submission has two history rows with the same new status and comments.
C14_RepeatedFinalizationAddsNothing ==
  \A i, j \in 1..Len(verification_history) :
    /\ i < j
    /\ verification_history[i].submission_id = verification_history[j].submission_id
    /\ verification_history[i].new_status = verification_history[j].new_status
    => verification_history[i].comments # verification_history[j].comments

\* C15: no invocation produces, persists or notifies MANUAL_REVIEW: every
\* verdict held is APPROVE or REJECT, no stored status and no history row is
\* manual_review, and no notification carries the manual-review code.
C15_NeverManualReview ==
  /\ \A w \in Workers : run[w].verdict.decision \in {"APPROVE", "REJECT"}
  /\ \A s \in Submissions :
       submission_status[s] \in {"pending", "approved", "rejected"}
  /\ \A i \in 1..Len(verification_history) :
       verification_history[i].new_status \in {"approved", "rejected"}
  /\ \A i \in 1..Len(notifications) :
       notifications[i].notification_code # "certificate_submission_request"

C15_Witness ==
  /\ \E i \in 1..Len(verification_history) :
       /\ verification_history[i].new_status = "rejected"
       /\ verification_history[i].comments = TamperComment
  /\ \E i \in 1..Len(verification_history) :
       verification_history[i].new_status = "approved"

\* C16: within one invocation there is at most one storage get, one
\* retrieval of the authoritative document, one storage put, one first and
\* one second inference call (the second only after the retrieval), and no
\* call is made once a step of the invocation has failed.
C16_EachExternalCallAtMostOnce ==
  /\ [](\A w \in Workers :
          LET c == run[w].calls IN
            /\ c.get_file <= 1 /\ c.download <= 1 /\ c.upload <= 1
            /\ c.inference <= 2
            /\ c.inference = 2 => run[w].retrieved /\ c.upload = 1
            /\ run[w].pc \in {"download", "upload", "extract_cross", "cross_check"}
                 => c.inference = 1)
  /\ [][\A w \in Workers :
          \A k \in {"get_file", "inference", "download", "upload"} :
            run'[w].calls[k] > run[w].calls[k] =>
              /\ run'[w].calls[k] = run[w].calls[k] + 1
              /\ run[w].exc = "none"
              /\ run[w].pc \notin {"save", "stats", "done"}]_vars

C16_Witness ==
  \E w \in Workers :
    /\ run[w].pc = "save"
    /\ run[w].exc = "Exception"
    /\ run[w].calls = [get_file |-> 1, extract |-> 2, inference |-> 2,
                       download |-> 1, upload |-> 1]

\* C17: a call of the validator that does not raise returns the candidate
\* record if metadata is present, the formatted creation date equals
\* generated_on, the names match, the URL has the issuer's form and its
\* final 8-digit code equals record_id; otherwise it returns None.
C17_ValidatorIsBinaryGate ==
  call.pc = "returned" /\ call.result \notin {"Exception", "ValueError"} =>
    LET name == call.student_name
        out == call.structured_output
        DateEqual ==
          \/ call.metadata = "d14" /\ out # "AParen"
          \/ call.metadata = "d15" /\ out = "AParen"
        NamesMatch ==
          \/ name \in {"Jane", "JaneLower"} /\ out \notin {"John", "ATab"}
          \/ name = "John" /\ out = "John"
          \/ name = "JaneTab" /\ out = "ATab"
        UrlOfIssuer == out \notin {"AHttps", "AHost", "AShort"}
        CodeIsRecordId == out # "ABadId"
    IN /\ call.result \in {"record", "null"}
       /\ call.result = "record" <=>
            /\ call.metadata # "absent"
            /\ DateEqual /\ NamesMatch /\ UrlOfIssuer /\ CodeIsRecordId
       /\ call.llm_calls = 1

C17_Witness ==
  /\ call.pc = "returned"
  /\ call.student_name = "JaneLower"
  /\ call.metadata = "d14"
  /\ call.structured_output = "AUpper"
  /\ call.result = "record"

\* C18: when extraction_result.metadata is None the validator returns None
\* without having called the inference client, whatever that call would
\* return or raise.
C18_AbsentMetadataReturnsNullFirst ==
  call.metadata = "absent" /\ call.pc = "returned" =>
    call.result = "null" /\ call.llm_calls = 0

\* C19: once the first inference call has returned, a creation date that
\* cannot be parsed (None included) makes the validator raise, and the
\* invocation finalizes with the generic-comment REJECT; a creation date that
\* parses to another day than the candidate's generated_on makes the
\* validator return None, and the invocation finalizes with the
\* tamper-suspicion REJECT.
C19_DateErrorRaisesDateMismatchIsNull ==
  /\ ~_format_pdf_date(CreationDates["none"]).ok
  /\ ~_format_pdf_date(CreationDates["dashed"]).ok
  /\ _format_pdf_date(CreationDates["d15"]) = [ok |-> TRUE, val |-> GeneratedOn15]
  /\ \A w \in Workers :
       LET rr == run[w] IN
         rr.pc = "save" /\ rr.inputs.pass1 # "unset" =>
           /\ rr.inputs.creation_date \in {"none", "dashed"} =>
                /\ rr.exc = "Exception"
                /\ rr.error = ErrorTexts.date
                /\ rr.structured_output = "none"
                /\ rr.verdict.decision = "REJECT"
                /\ rr.verdict.comments = <<ErrorComment>>
                /\ rr.calls.download = 0
           /\ /\ rr.inputs.creation_date = "d15"
              /\ Records[rr.inputs.pass1].generated_on = GeneratedOn14
              => /\ rr.exc = "none"
                 /\ rr.structured_output = "null"
                 /\ rr.verdict.decision = "REJECT"
                 /\ rr.verdict.comments = <<TamperComment>>
                 /\ rr.calls.download = 0

C19_Witness ==
  \E w, q \in Workers :
    /\ run[w].pc = "save" /\ run[q].pc = "save"
    /\ run[w].inputs.creation_date = "dashed" /\ run[w].inputs.pass1 = "A"
    /\ run[w].verdict.comments = <<ErrorComment>>
    /\ run[q].inputs.creation_date = "d15" /\ run[q].inputs.pass1 = "A"
    /\ run[q].verdict.comments = <<TamperComment>>


\* C20: the validator compares the two names after removing every
\* whitespace character and lower-casing both: among the calls where the
\* other checks pass, the record is returned exactly when the names so
\* reduced are equal.
C20_NamesComparedWithoutWhitespace ==
  LET WithoutWhitespace(name) ==
        Lower(SelectSeq(name, LAMBDA c : c \notin {" ", "\t", "\n", "\r"}))
  IN /\ call.pc = "returned"
     /\ call.result \in {"record", "null"}
     /\ call.metadata = "d14"
     /\ call.structured_output \in {"A", "AUni", "AUpper", "ATrail", "ATab", "John"}
     => (call.result = "record" <=>
           WithoutWhitespace(ValidatorNames[call.student_name]) =
           WithoutWhitespace(ValidatorRecords[call.structured_output].student_name))

\* C21: the cross-check returns exactly the titles of the fields, among the
\* seven other than generated_on, whose normalized values differ, each once
\* and in title case; a difference in generated_on alone is not reported and
\* the list is empty exactly when the seven normalized values are equal.
C21_CrossCheckReturnsDifferingFields ==
  call.pc = "returned" /\ call.result = "list" =>
    LET Titles ==
          [
            student_name |->
              <<"S","t","u","d","e","n","t"," ","N","a","m","e">>,
            record_id |->
              <<"R","e","c","o","r","d"," ","I","d">>,
            verification_url |->
              <<"V","e","r","i","f","i","c","a","t","i","o","n"," ","U","r","l">>,
            expiration_date |->
              <<"E","x","p","i","r","a","t","i","o","n"," ","D","a","t","e">>,
            curriculum_group |->
              <<"C","u","r","r","i","c","u","l","u","m"," ","G","r","o","u","p">>,
            course_learner_group |->
              <<"C","o","u","r","s","e"," ","L","e","a","r","n","e","r"," ","G","r","o","u","p">>,
            university_name |->
              <<"U","n","i","v","e","r","s","i","t","y"," ","N","a","m","e">> ]
        \* the fields in which each record differs from scenario A's once
        \* normalized
        Differs ==
          [ A |-> {}, AParen |-> {}, ACase |-> {}, AMulti |-> {},
            AHttps |-> {"verification_url"}, ABadId |-> {"record_id"},
            John |-> {"student_name"}, AUni |-> {"university_name"},
            AExp |-> {"expiration_date"},
            ATwo |-> {"course_learner_group", "university_name"},
            ATabbed |-> {"curriculum_group"}, ANested |-> {"curriculum_group"} ]
        first == call.structured_output
        second == call.cross_check_output
        Expected == IF first = second THEN {}
                    ELSE Differs[first] \cup Differs[second]
        Listed == {call.miss_matches[i] : i \in 1..Len(call.miss_matches)}
    IN /\ Listed = {Titles[f] : f \in Expected}
       /\ Len(call.miss_matches) = Cardinality(Expected)
       /\ call.miss_matches = << >> <=> Expected = {}

C21_Witness ==
  /\ call.pc = "returned"
  /\ call.structured_output = "AParen"
  /\ call.cross_check_output = "ATwo"
  /\ Len(call.miss_matches) = 2
  /\ call.miss_matches[2] = UniversityName

\* C22: two values that differ only in interior whitespace (of any kind),
\* in letter case or in parenthetical annotations (several, or one inside
\* another) are never reported as a mismatch by the cross-check.
C22_CleanIgnoresWhitespaceCaseParentheses ==
  /\ call.pc = "returned" /\ call.result = "list"
  /\ {call.structured_output, call.cross_check_output} \subseteq
       {"A", "AParen", "ACase", "AMulti", "ATabbed", "ANested"}
  => call.miss_matches = << >>

\* C23: when the digital extraction yields text of more than 50 characters,
\* extract_text returns the digital result and the optical-recognition path
\* is never invoked.
C23_DigitalFirst ==
  /\ call.pc \in {"returned", "extracted"} /\ call.digital_length > 50
       => /\ call.result = [method |-> "pymupdf", pages |-> call.page_count,
                            length |-> call.digital_length]
          /\ call.parser_calls = 1
  /\ call.digital_length > 50 /\ call.pc # "extension"
       => call.ocr_calls = 0 /\ call.ocr_pages = {} /\ call.pc # "tesseract"

C23_Witness ==
  /\ call.pc = "returned" /\ call.digital_length = 51 /\ call.page_count = 3
  /\ call.result.method = "pymupdf" /\ call.ocr_calls = 0

\* C24: when the digital extraction yields 50 characters or fewer (exactly
\* 50 and the empty text included), extract_text falls back to optical
\* recognition, which reads page one only, and what it returns is the OCR
\* result with page count 1.
C24_OcrFallbackOnPageOne ==
  /\ call.pc \in {"returned", "extracted"} /\ call.digital_length <= 50
       => /\ call.ocr_calls = 1
          /\ call.ocr_pages = {0}
          /\ call.result.method = "tesseract"
          /\ call.result.pages = 1
  /\ call.ocr_pages \subseteq {0}

C24_Witness ==
  /\ call.pc = "returned" /\ call.digital_length = 50 /\ call.page_count = 3
  /\ call.result.method = "tesseract" /\ call.result.pages = 1
  /\ call.ocr_pages = {0}

\* C25: for a filename whose extension, compared without regard to case, is
\* not pdf, extract_text fails with the unsupported-format error without
\* invoking the digital parser or optical recognition, and the run that
\* called it ends with the generic-comment REJECT.
C25_UnsupportedExtensionFails ==
  LET Unsupported == {"docx", "bare", "png", "hidden", "dirdot", "spaced"} IN
    /\ call.filename \in Unsupported /\ call.pc # "extension"
         => /\ call.pc \in {"raised", "failed"}
            /\ call.error[1] = "Unsupported file format ."
            /\ call.result = "none"
            /\ call.parser_calls = 0 /\ call.ocr_calls = 0
    /\ call.filename \in Unsupported /\ call.pc = "failed"
         => call.verdict = [decision |-> "REJECT", comments |-> <<ErrorComment>>]
    /\ call.pc \notin {"extension", "raised", "failed"}
         => call.filename \notin Unsupported \/ call.parser_calls > 0

C25_Witness ==
  /\ call.pc = "failed" /\ call.filename = "png"
  /\ call.error = <<"Unsupported file format .", "p", "n", "g">>
  /\ call.verdict.decision = "REJECT"
  /\ call.parser_calls = 0

\* C26: on every exit of download_certificate_from_url after the browser was
\* launched (success, expected abort, an error at any step, the creation of
\* the context included, or a failure while closing the context), both the
\* browser context and the browser have been closed (exits by cancellation
\* of the task are left aside).
C26_BrowserAndContextClosedOnEveryExit ==
  /\ call.pc \in {"returned", "raised"} /\ call.browser # "none"
  /\ call.error.type # "CancelledError"
  => call.context = "closed" /\ call.browser = "closed"

\* C27: a browser automation error other than the expected navigation abort,
\* at any step and the final navigation included, makes
\* download_certificate_from_url raise instead of returning bytes.
C27_AutomationErrorFailsTheFetch ==
  call.pc = "returned" => call.goto_error \in {"none", "net::ERR_ABORTED"}

\* C28: the navigation abort the final goto raises after the interceptor has
\* stored the response body is swallowed: the function returns the stored
\* bytes and the abort is never what it raises.
C28_AbortAfterCaptureIsSwallowed ==
  /\ call.pc = "returned" /\ call.goto_error = "net::ERR_ABORTED"
       => call.result = "bytes" /\ call.error = NoError
  /\ call.goto_error = "net::ERR_ABORTED"
       => /\ call.certificate_data = "bytes"
          /\ call.pending.at # "final_goto" /\ call.error.at # "final_goto"
  /\ call.pending.type # "net::ERR_ABORTED" /\ call.error.type # "net::ERR_ABORTED"
  /\ call.pc \in {"close_context", "close_browser", "exit", "returned", "raised"}
     /\ call.certificate_data = "bytes"
       => call.goto_error = "net::ERR_ABORTED"

C28_Witness ==
  /\ call.pc = "returned" /\ call.goto_error = "net::ERR_ABORTED"
  /\ call.result = "bytes" /\ call.error = NoError
  /\ call.context = "closed" /\ call.browser = "closed"

\* C29: when the username or the password is not configured,
\* download_certificate_from_url raises the configuration error before any
\* browser is launched and without any navigation.
C29_MissingCredentialFailsBeforeLaunch ==
  (call.username # "set" \/ call.password # "set") /\ call.pc # "credentials"
    => /\ call.pc = "raised"
       /\ call.error = [type |-> "Exception", at |-> "CITI credentials not configured"]
       /\ call.playwright = "none" /\ call.browser = "none" /\ call.context = "none"
       /\ call.launches = 0 /\ call.navigations = 0

C29_Witness ==
  /\ call.pc = "raised" /\ call.username = "set" /\ call.password = "empty"
  /\ call.error.at = "CITI credentials not configured"
  /\ call.launches = 0

\* C30: for a creation timestamp D:YYYYMMDDhhmmss... whose date is a calendar
\* date, _format_pdf_date returns that date as DD-Mon-YYYY whatever the time
\* and the offset that follow, and a second call on the same text returns
\* the same.
C30_FormatsDateWhateverTheSuffix ==
  LET Expected ==
          [
            jan14 |-> <<"1","4","-","J","a","n","-","2","0","2","5">>,
            newyear |-> <<"0","1","-","J","a","n","-","2","0","2","5">>,
            leap |-> <<"2","9","-","F","e","b","-","2","0","2","4">>,
            leap2000 |-> <<"2","9","-","F","e","b","-","2","0","0","0">>,
            mar |-> <<"3","1","-","M","a","r","-","2","0","2","5">>,
            apr |-> <<"3","0","-","A","p","r","-","2","0","2","5">>,
            may |-> <<"0","9","-","M","a","y","-","1","9","9","9">>,
            jun |-> <<"1","5","-","J","u","n","-","2","0","2","5">>,
            jul |-> <<"0","4","-","J","u","l","-","2","0","2","5">>,
            aug |-> <<"2","0","-","A","u","g","-","2","0","2","5">>,
            sep |-> <<"0","9","-","S","e","p","-","2","0","2","5">>,
            oct |-> <<"0","1","-","O","c","t","-","2","0","2","5">>,
            nov |-> <<"3","0","-","N","o","v","-","2","0","1","9">>,
            yearend |-> <<"3","1","-","D","e","c","-","2","0","2","5">> ]
  IN /\ call.pc \in {"repeat", "formatted"} /\ call.date \in DOMAIN Expected
          => call.first = [ok |-> TRUE, val |-> Expected[call.date]]
     /\ call.pc = "formatted" => call.second = call.first

C30_Witness ==
  /\ call.pc = "formatted" /\ call.date = "leap" /\ call.suffix = "east"
  /\ call.first.ok
  /\ call.second.val = <<"2","9","-","F","e","b","-","2","0","2","4">>

\* C31: an invocation passes the stages FETCHING_SUBMISSION (1),
\* EXTRACTING_SUBMITTED (2), VALIDATING (3), RETRIEVING_AUTHORITATIVE (4),
\* EXTRACTING_AUTHORITATIVE (5), CROSS_CHECKING (6), FINALIZED (7) in that
\* order: each step keeps the stage, enters the next one or enters FINALIZED;
\* FINALIZED is never left; and every started invocation reaches FINALIZED,
\* given that each awaited call returns or raises.
C31_StagesInOrderAndFinalizedReached ==
  /\ [][\A w \in Workers :
          \* the start of an invocation by a caller is no step of a run
          run[w].pc \notin {"idle", "done"} =>
            \/ Stage(run'[w]) = Stage(run[w])
            \/ Stage(run[w]) < 6 /\ Stage(run'[w]) = Stage(run[w]) + 1
            \/ Stage(run'[w]) = 7]_vars
  /\ \A w \in Workers :
       (Stage(run[w]) \in 1..6) ~> (Stage(run[w]) = 7)

C31_Witness ==
  \E w \in Workers :
    /\ run[w].pc = "save"
    /\ run[w].cross_checked
    /\ run[w].calls.download = 1
    /\ run[w].calls.extract = 2
    /\ run[w].calls.inference = 2

\* C32: an invocation whose submission cannot be located has no side effect:
\* its only step is the failed lookup, which leaves every stored status, the
\* history, the dashboard statistics and the notifications as they were and
\* ends the invocation; it makes no storage, extraction, inference or
\* browser call and appends no history row.
C32_UnlocatedRunHasNoSideEffect ==
  /\ [](\A w \in Workers :
          run[w].submission_id = NoSuchSubmission =>
            /\ run[w].pc \in {"get_submission", "done"}
            /\ ~run[w].located
            /\ run[w].appended = 0
            /\ \A k \in DOMAIN run[w].calls : run[w].calls[k] = 0)
  /\ [][\A w \in Workers :
          /\ run[w].submission_id = NoSuchSubmission
          /\ run[w].pc = "get_submission"
          /\ run'[w] # run[w]
          => /\ run'[w].pc = "done"
             /\ submission_status' = submission_status
             /\ verification_history' = verification_history
             /\ dashboard_stats' = dashboard_stats
             /\ notifications' = notifications]_vars

C32_Witness ==
  \E w \in Workers :
    /\ run[w].submission_id = NoSuchSubmission
    /\ run[w].pc = "done"
    /\ run[w].raised = "KeyError"
    /\ verification_history = << >>
    /\ submission_status = [s \in Submissions |-> "pending"]

\* C33: the finally clause persists the verdict and the history row, then
\* updates the dashboard statistics, then enqueues the notification.  The
\* statistics and the notifications change only in a step of an invocation
\* whose persistence has committed, a notification only together with the
\* update of the statistics; a step that fails ends the invocation with its
\* error, so no later step runs and the failed one is not repeated, and it
\* leaves what was committed before as it is.
C33_FinalizationStepsInOrderUnguarded ==
  /\ [](\A w \in Workers :
          /\ run[w].pc = "stats" => run[w].appended = 1
          /\ run[w].pc = "done" /\ run[w].raised = "TypeError" => run[w].appended = 1
          /\ run[w].pc = "done" /\ run[w].raised = "DatabaseError" => run[w].appended = 0)
  /\ [][/\ dashboard_stats' # dashboard_stats \/ notifications' # notifications =>
             \E w \in Workers :
               /\ run[w].pc = "stats" /\ run[w].appended = 1
               /\ run'[w].pc = "done" /\ run'[w].raised = run[w].exc
               /\ notifications' # notifications =>
                    dashboard_stats' =
                      update_dashboard_stats_by_schedule(
                        dashboard_stats, decision_deltas[run[w].verdict.decision])
        /\ \A w \in Workers :
             /\ run[w].pc = "save" /\ run'[w] # run[w] =>
                  \/ /\ run'[w].pc = "stats"
                     /\ Len(verification_history') = Len(verification_history) + 1
                  \/ /\ run'[w].pc = "done" /\ run'[w].raised = "DatabaseError"
                     /\ UNCHANGED dbvars
             /\ run[w].pc = "stats" /\ run'[w] # run[w] =>
                  /\ run'[w].pc = "done"
                  /\ UNCHANGED <<submission_status, verification_history>>
                  /\ run'[w].raised = "TypeError" =>
                       UNCHANGED <<dashboard_stats, notifications>>]_vars

C33_Witness ==
  \E w \in Workers :
    /\ run[w].pc = "done"
    /\ run[w].raised = "TypeError"
    /\ run[w].appended = 1
    /\ Len(verification_history) = 1
    /\ submission_status[run[w].submission_id] = "rejected"
    /\ notifications = << >>
    /\ dashboard_stats = InitialDashboardStats

\* C34: in every history row, old_status is the status the submission had in
\* storage just before the row's update was committed: the rows of one
\* submission chain, each old_status being the new_status of the row before
\* (pending for the first), also when invocations for the same submission
\* overlap.
C34_OldStatusIsStoredStatusBeforeCommit ==
  \A i \in 1..Len(verification_history) :
    LET row == verification_history[i]
        before == {j \in 1..(i-1) :
                     verification_history[j].submission_id = row.submission_id}
    IN IF before = {} THEN row.old_status = "pending"
       ELSE row.old_status =
              verification_history[CHOOSE j \in before : \A k \in before : k <= j].new_status

\* C35: whenever download_certificate_from_url returns, what it returns is
\* the response body its interceptor stored during the call; it never
\* returns the empty byte string certificate_data starts with.
C35_ReturnedBytesAreTheCapturedBody ==
  call.pc = "returned" =>
    /\ call.result = "bytes"
    /\ call.certificate_data = "bytes"

\* C36: when the storage put of the retrieved document reports failure, the
\* invocation goes on to the extraction of that document and the cross-check
\* with its verdict untouched, and it finalizes with the verdict an
\* invocation with the same other outcomes and a successful put finalizes
\* with.
C36_FailedUploadDoesNotChangeTheVerdict ==
  /\ [](\A w, q \in Workers :
          LET a == run[w]
              b == run[q]
          IN /\ a.pc = "save" /\ b.pc = "save"
             /\ a.upload_result = "failure" /\ b.upload_result = "success"
             /\ a.submission_id = b.submission_id
             /\ a.inputs = b.inputs /\ a.exc = b.exc /\ a.error = b.error
             => /\ a.verdict = b.verdict
                /\ a.calls = b.calls)
  /\ [][\A w \in Workers :
          run[w].pc = "upload" /\ run'[w].upload_result = "failure" =>
            /\ run'[w].pc = "extract_cross"
            /\ run'[w].verdict = run[w].verdict
            /\ run'[w].exc = "none"]_vars

C36_Witness ==
  \E w, q \in Workers :
    /\ run[w].pc = "save" /\ run[q].pc = "save"
    /\ run[w].upload_result = "failure" /\ run[q].upload_result = "success"
    /\ run[w].submission_id = run[q].submission_id
    /\ run[w].inputs = run[q].inputs
    /\ run[w].inputs.pass2 = "A"
    /\ run[w].cross_checked /\ run[q].cross_checked
    /\ run[w].verdict.decision = "APPROVE" /\ run[q].verdict.decision = "APPROVE"

\* C37: after a successful update_dashboard_stats_by_schedule the row of the
\* schedule has submitted_count equal to the number of the schedule's
\* submissions, each of the four status counts equal to the number of those
\* submissions in that status (so their sum does not exceed submitted_count)
\* and not_submitted_count = total_submissions_required - submitted_count;
\* for a schedule without a row the call raises ValueError and no stored
\* state changes.
C37_StatsAreRecomputedFromSubmissions ==
  /\ [](call.pc = "updated" =>
          LET In(status) == Cardinality({s \in Submissions : submission_status[s] = status})
              d == dashboard_stats
          IN /\ d.submitted_count = Cardinality(Submissions)
             /\ d.approved_count = In("approved")
             /\ d.rejected_count = In("rejected")
             /\ d.pending_count = In("pending")
             /\ d.manual_review_count = In("manual_review")
             /\ d.approved_count + d.rejected_count + d.pending_count
                  + d.manual_review_count <= d.submitted_count
             /\ d.not_submitted_count = d.total_submissions_required - d.submitted_count)
  /\ [][/\ call'.requirement_schedule_id = "schedule2" /\ call'.pc # "idle" =>
             /\ call'.pc = "raised" /\ call'.result = "ValueError"
             /\ UNCHANGED dbvars
        /\ call'.pc = "raised" => call'.requirement_schedule_id = "schedule2"]_vars

C37_Witness ==
  /\ call.pc = "updated"
  /\ submission_status = [s1 |-> "approved", s2 |-> "manual_review"]
  /\ dashboard_stats.approved_count = 1
  /\ dashboard_stats.manual_review_count = 1
  /\ dashboard_stats.pending_count = 0
  /\ dashboard_stats.agent_verification_count = 1

====
